---- MODULE Spec2Model ----
(***************************************************************************)
(* Model of the signal-aggregation and threshold-optimisation engine of    *)
(* stock-signal-bot: backtester.py (evaluate_thresholds, sweep_thresholds, *)
(* auto_tune), signal_generator.py (generate_signals), the live config of  *)
(* config.py and the pipeline runs of main.py / dashboard.py.              *)
(*                                                                         *)
(* Numbers.  Thresholds, sentiment scores and confidences are floats in    *)
(* the source; here they are integers in hundredths (0.2 is 20, -0.05 is   *)
(* -5).  A quotient a/b is kept as the pair a, b: two quotients are        *)
(* compared by cross-multiplication, which orders them as the float        *)
(* division does for the small operands that occur.                        *)
(***************************************************************************)
EXTENDS Integers, Sequences, FiniteSets, TLC

(***************************************************************************)
(* Bounds of the model.                                                    *)
(***************************************************************************)
MaxRows == 2
MaxTuneRows == 3
MaxWebRows == 2
MaxArticles == 1
MaxSignalArticles == 2
MaxRuns == 2
MaxLiveArticles == 2
MaxDate == 4
MaxTableArticles == 2

(***************************************************************************)
(* backtester.py: evaluate_thresholds.  A row of the evaluation table is   *)
(* [sentiment_score, actual_change_pct, article_count].                    *)
(***************************************************************************)
ZeroCounts ==
  [tp_buy |-> 0, fp_buy |-> 0, tp_sell |-> 0, fp_sell |-> 0,
   hold_count |-> 0, total_signals |-> 0]

\* one iteration of the loop over the table (lines 180-202) is EvalRow;
\* the definitions before it are faulty variants of it.
\* the final else branch without its hold_count += 1
EvalRowNoElseHold(c, row, buy_thresh, sell_thresh, min_articles) ==
  LET score == row.sentiment_score
      change == row.actual_change_pct
      count == row.article_count
  IN  IF count < min_articles
        THEN [c EXCEPT !.hold_count = @ + 1]
      ELSE IF score > buy_thresh
        THEN IF change > 0
               THEN [c EXCEPT !.total_signals = @ + 1, !.tp_buy = @ + 1]
               ELSE [c EXCEPT !.total_signals = @ + 1, !.fp_buy = @ + 1]
      ELSE IF score < sell_thresh
        THEN IF change < 0
               THEN [c EXCEPT !.total_signals = @ + 1, !.tp_sell = @ + 1]
               ELSE [c EXCEPT !.total_signals = @ + 1, !.fp_sell = @ + 1]
      ELSE c

\* the SELL test taken before the BUY test
EvalRowSellFirst(c, row, buy_thresh, sell_thresh, min_articles) ==
  LET score == row.sentiment_score
      change == row.actual_change_pct
      count == row.article_count
  IN  IF count < min_articles
        THEN [c EXCEPT !.hold_count = @ + 1]
      ELSE IF score < sell_thresh
        THEN IF change < 0
               THEN [c EXCEPT !.total_signals = @ + 1, !.tp_sell = @ + 1]
               ELSE [c EXCEPT !.total_signals = @ + 1, !.fp_sell = @ + 1]
      ELSE IF score > buy_thresh
        THEN IF change > 0
               THEN [c EXCEPT !.total_signals = @ + 1, !.tp_buy = @ + 1]
               ELSE [c EXCEPT !.total_signals = @ + 1, !.fp_buy = @ + 1]
      ELSE [c EXCEPT !.hold_count = @ + 1]

\* a wrong SELL that is not counted as a signal
EvalRowFpSellUncounted(c, row, buy_thresh, sell_thresh, min_articles) ==
  LET score == row.sentiment_score
      change == row.actual_change_pct
      count == row.article_count
  IN  IF count < min_articles
        THEN [c EXCEPT !.hold_count = @ + 1]
      ELSE IF score > buy_thresh
        THEN IF change > 0
               THEN [c EXCEPT !.total_signals = @ + 1, !.tp_buy = @ + 1]
               ELSE [c EXCEPT !.total_signals = @ + 1, !.fp_buy = @ + 1]
      ELSE IF score < sell_thresh
        THEN IF change < 0
               THEN [c EXCEPT !.total_signals = @ + 1, !.tp_sell = @ + 1]
               ELSE [c EXCEPT !.fp_sell = @ + 1, !.hold_count = @ + 1]
      ELSE [c EXCEPT !.hold_count = @ + 1]

\* the article-count test reversed
EvalRowCountReversed(c, row, buy_thresh, sell_thresh, min_articles) ==
  LET score == row.sentiment_score
      change == row.actual_change_pct
      count == row.article_count
  IN  IF count > min_articles
        THEN [c EXCEPT !.hold_count = @ + 1]
      ELSE IF score > buy_thresh
        THEN IF change > 0
               THEN [c EXCEPT !.total_signals = @ + 1, !.tp_buy = @ + 1]
               ELSE [c EXCEPT !.total_signals = @ + 1, !.fp_buy = @ + 1]
      ELSE IF score < sell_thresh
        THEN IF change < 0
               THEN [c EXCEPT !.total_signals = @ + 1, !.tp_sell = @ + 1]
               ELSE [c EXCEPT !.total_signals = @ + 1, !.fp_sell = @ + 1]
      ELSE [c EXCEPT !.hold_count = @ + 1]

EvalRow(c, row, buy_thresh, sell_thresh, min_articles) ==
  LET score == row.sentiment_score
      change == row.actual_change_pct
      count == row.article_count
  IN  IF count < min_articles
        THEN [c EXCEPT !.hold_count = @ + 1]
      ELSE IF score > buy_thresh
        THEN IF change > 0
               THEN [c EXCEPT !.total_signals = @ + 1, !.tp_buy = @ + 1]
               ELSE [c EXCEPT !.total_signals = @ + 1, !.fp_buy = @ + 1]
      ELSE IF score < sell_thresh
        THEN IF change < 0
               THEN [c EXCEPT !.total_signals = @ + 1, !.tp_sell = @ + 1]
               ELSE [c EXCEPT !.total_signals = @ + 1, !.fp_sell = @ + 1]
      ELSE [c EXCEPT !.hold_count = @ + 1]

RECURSIVE EvalLoop(_, _, _, _, _, _)
EvalLoop(c, tbl, i, buy_thresh, sell_thresh, min_articles) ==
  IF i > Len(tbl) THEN c
  ELSE EvalLoop(EvalRow(c, tbl[i], buy_thresh, sell_thresh, min_articles),
                tbl, i + 1, buy_thresh, sell_thresh, min_articles)

\* accuracy = correct / total_signals if total_signals > 0 else 0.0, kept as
\* the pair acc_num / acc_den (0/1 when there is no signal)
evaluate_thresholds(tbl, buy_thresh, sell_thresh, min_articles) ==
  LET c == EvalLoop(ZeroCounts, tbl, 1, buy_thresh, sell_thresh, min_articles)
      correct == c.tp_buy + c.tp_sell
  IN  [buy_threshold |-> buy_thresh,
       sell_threshold |-> sell_thresh,
       min_articles |-> min_articles,
       acc_num |-> IF c.total_signals > 0 THEN correct ELSE 0,
       acc_den |-> IF c.total_signals > 0 THEN c.total_signals ELSE 1,
       total_signals |-> c.total_signals,
       correct |-> correct,
       tp_buy |-> c.tp_buy,
       fp_buy |-> c.fp_buy,
       tp_sell |-> c.tp_sell,
       fp_sell |-> c.fp_sell,
       hold_count |-> c.hold_count]

\* the value of a result variable before the call that sets it
NoResult ==
  [buy_threshold |-> 0, sell_threshold |-> 0, min_articles |-> 0,
   acc_num |-> 0, acc_den |-> 1, total_signals |-> -1, correct |-> -1,
   tp_buy |-> -1, fp_buy |-> -1, tp_sell |-> -1, fp_sell |-> -1,
   hold_count |-> -1]

\* a / b > c / d for positive denominators
AccGreater(r1, r2) == r1.acc_num * r2.acc_den > r2.acc_num * r1.acc_den
AccEqual(r1, r2) == r1.acc_num * r2.acc_den = r2.acc_num * r1.acc_den

(***************************************************************************)
(* backtester.py: sweep_thresholds.  The result list is in the order of    *)
(* the three nested loops: min_articles outermost, buy_threshold in the    *)
(* middle, sell_threshold innermost.                                       *)
(***************************************************************************)
buy_range == [x \in 1..12 |-> 5 * x]
\* (sell_rangeUnsigned: the range without the minus sign of line 226)
sell_rangeUnsigned == [x \in 1..12 |-> 5 * x]
sell_range == [x \in 1..12 |-> -5 * x]
min_articles_options == <<1, 2, 3, 5>>

GridSize == Len(min_articles_options) * Len(buy_range) * Len(sell_range)

\* the k-th triple of the enumeration (k from 1)
GridMin(k) == min_articles_options[((k - 1) \div (Len(buy_range) * Len(sell_range))) + 1]
\* (GridBuyInner: buy_threshold varying as fast as sell_threshold)
GridBuyInner(k) == buy_range[((k - 1) % Len(buy_range)) + 1]
GridBuy(k) == buy_range[(((k - 1) \div Len(sell_range)) % Len(buy_range)) + 1]
GridSell(k) == sell_range[((k - 1) % Len(sell_range)) + 1]

\* (sweep_thresholdsBuyInner: the loops over bt and st exchanged)
sweep_thresholdsBuyInner(tbl) ==
  [k \in 1..GridSize |->
     evaluate_thresholds(tbl,
                         buy_range[((k - 1) % Len(buy_range)) + 1],
                         sell_range[(((k - 1) \div Len(buy_range)) % Len(sell_range)) + 1],
                         GridMin(k))]

sweep_thresholds(tbl) ==
  [k \in 1..GridSize |->
     evaluate_thresholds(tbl, GridBuy(k), GridSell(k), GridMin(k))]

(***************************************************************************)
(* backtester.py: auto_tune, lines 426-434 (the same lines as main,        *)
(* 375-384): the viable results and the head of the sorted list.           *)
(***************************************************************************)
AtLeast3(r) == r.total_signals >= 3
AtLeast1(r) == r.total_signals >= 1

\* without the relaxation of lines 427-428
ViableNoRelax(all_results) == SelectSeq(all_results, AtLeast3)

Viable(all_results) ==
  LET viable == SelectSeq(all_results, AtLeast3)
  IN  IF viable = <<>> THEN SelectSeq(all_results, AtLeast1) ELSE viable

\* the sort key (accuracy, total_signals) compared as Python compares
\* tuples (KeyGreaterAccuracyOnly: a key without total_signals)
KeyGreaterAccuracyOnly(r1, r2) == AccGreater(r1, r2)

KeyGreater(r1, r2) ==
  \/ AccGreater(r1, r2)
  \/ AccEqual(r1, r2) /\ r1.total_signals > r2.total_signals

\* viable.sort(key=..., reverse=True); viable[0].  list.sort is stable, also
\* with reverse=True, so the head of the sorted list is the first element
\* of the list whose key no other element exceeds.  It is found by halving
\* the list; of the heads of the two halves the right one wins only with a
\* strictly greater key.
RECURSIVE SortedHeadOf(_, _, _)
SortedHeadOf(viable, lo, hi) ==
  IF lo = hi THEN viable[lo]
  ELSE LET mid == (lo + hi) \div 2
           left == SortedHeadOf(viable, lo, mid)
           right == SortedHeadOf(viable, mid + 1, hi)
       IN  IF KeyGreater(right, left) THEN right ELSE left

SortedHead(viable) == SortedHeadOf(viable, 1, Len(viable))

\* the outcome of lines 425-434 on a table: whether the viable list has an
\* element and, when it has, the selected configuration
Select(tbl) ==
  LET viable == Viable(sweep_thresholds(tbl))
  IN  IF viable = <<>>
        THEN [found |-> FALSE, optimal |-> NoResult]
        ELSE [found |-> TRUE, optimal |-> SortedHead(viable)]

(***************************************************************************)
(* signal_generator.py: the aggregation of one ticker's articles (lines    *)
(* 41-60).  An article is [ticker, sentiment, confidence, title];          *)
(* Missing stands for a key the dict does not have.  Confidences are in    *)
(* hundredths.                                                             *)
(***************************************************************************)
Missing == "missing"
MissingConf == -1

\* SENTIMENT_SCORES.get(art.get("sentiment", "neutral"), 0.0)
Polarity(art) ==
  IF art.sentiment = "positive" THEN 1
  ELSE IF art.sentiment = "negative" THEN -1
  ELSE 0

\* art.get("confidence", 0.5)
Conf(art) == IF art.confidence = MissingConf THEN 50 ELSE art.confidence

NoAgg == [weighted_sum |-> 0, weight_total |-> 0, count |-> 0,
          best_article |-> 0, best_confidence |-> 0]

\* (AggStepBestFirst: best_article is the first surviving article)
AggStepBestFirst(g, art, i) ==
  LET score == Polarity(art)
      conf == Conf(art)
  IN  IF score = 0 /\ conf < 70
        THEN g
        ELSE [g EXCEPT !.weighted_sum = @ + score * conf,
                       !.weight_total = @ + conf,
                       !.best_confidence = IF conf > @ THEN conf ELSE @,
                       !.best_article = IF @ = 0 THEN i ELSE @]

\* (AggStepNoFilter: the loop body without the test of lines 50-51)
AggStepNoFilter(g, art, i) ==
  LET score == Polarity(art)
      conf == Conf(art)
  IN  [g EXCEPT !.weighted_sum = @ + score * conf,
                !.weight_total = @ + conf,
                !.best_confidence = IF conf > @ THEN conf ELSE @,
                !.best_article = IF conf > g.best_confidence THEN i ELSE @]

\* one iteration of the loop of lines 46-57; i is the article's position in
\* ticker_articles, best_article the position of the best one (0 for None)
AggStep(g, art, i) ==
  LET score == Polarity(art)
      conf == Conf(art)
  IN  IF score = 0 /\ conf < 70
        THEN g
        ELSE [g EXCEPT !.weighted_sum = @ + score * conf,
                       !.weight_total = @ + conf,
                       !.best_confidence = IF conf > @ THEN conf ELSE @,
                       !.best_article = IF conf > g.best_confidence THEN i ELSE @]

RECURSIVE AggLoop(_, _, _)
AggLoop(g, ticker_articles, i) ==
  IF i > Len(ticker_articles) THEN g
  ELSE AggLoop(AggStep(g, ticker_articles[i], i), ticker_articles, i + 1)

\* (AggregateCountsKept: count as the number of articles the filter keeps)
AggregateCountsKept(ticker_articles) ==
  LET Kept(art) == ~(Polarity(art) = 0 /\ Conf(art) < 70)
  IN  AggLoop([NoAgg EXCEPT !.count = Len(SelectSeq(ticker_articles, Kept))],
              ticker_articles, 1)

Aggregate(ticker_articles) ==
  AggLoop([NoAgg EXCEPT !.count = Len(ticker_articles)], ticker_articles, 1)

\* avg_score = weighted_sum / weight_total if weight_total > 0 else 0.0,
\* compared with a threshold given in hundredths
AvgGreater(g, thresh) ==
  IF g.weight_total > 0 THEN 100 * g.weighted_sum > thresh * g.weight_total
  ELSE 0 > thresh

AvgLess(g, thresh) ==
  IF g.weight_total > 0 THEN 100 * g.weighted_sum < thresh * g.weight_total
  ELSE 0 < thresh

\* by_ticker.get(ticker, [])
ByTicker(arts, ticker) ==
  LET Of(art) == art.ticker = ticker
  IN  SelectSeq(arts, Of)

\* the watchlist config.ALL_TICKERS, shortened to two assets
ALL_TICKERS == <<"AAPL", "GC=F">>

\* round(x, k) of a quotient n / d (d > 0) scaled to the unit of the k-th
\* decimal: the nearest integer, the even one of two equally near
Round(n, d) ==
  LET q == (2 * n + d) \div (2 * d)
  IN  IF (2 * n + d) % (2 * d) = 0 /\ q % 2 = 1 THEN q - 1 ELSE q

\* the entry of lines 70-77.  score is round(avg_score, 3) in thousandths,
\* confidence is round(avg_confidence * 100, 1) in tenths of a percent; the
\* exact quotients avg_score = score_num / score_den and avg_confidence =
\* conf_sum / article_count (in hundredths) are kept beside them
SignalEntry(signal, g, ticker_articles) ==
  [signal |-> signal,
   score |-> IF g.weight_total > 0
               THEN Round(1000 * g.weighted_sum, g.weight_total) ELSE 0,
   confidence |-> IF g.count > 0 THEN Round(10 * g.weight_total, g.count) ELSE 0,
   score_num |-> IF g.weight_total > 0 THEN g.weighted_sum ELSE 0,
   score_den |-> IF g.weight_total > 0 THEN g.weight_total ELSE 1,
   conf_sum |-> g.weight_total,
   article_count |-> g.count,
   top_headline |-> IF g.best_article # 0
                      THEN ticker_articles[g.best_article].title ELSE ""]

\* _empty_signal
empty_signal ==
  [signal |-> "HOLD", score |-> 0, confidence |-> 0,
   score_num |-> 0, score_den |-> 1, conf_sum |-> 0,
   article_count |-> 0, top_headline |-> "No recent news"]

(***************************************************************************)
(* backtester.py: compute_next_day_change.  A date string "YYYY-MM-DD" is  *)
(* a day number (the strings sort as the days do); prices is a function    *)
(* from the known dates to the closing prices.  The result is None or the  *)
(* quotient num / den.                                                     *)
(***************************************************************************)
NoChange == [resolved |-> FALSE, num |-> 0, den |-> 1]

\* sorted(prices.keys())
RECURSIVE SortedSeq(_)
SortedSeq(S) ==
  IF S = {} THEN << >>
  ELSE LET first == CHOOSE x \in S : \A y \in S : x <= y
       IN  <<first>> \o SortedSeq(S \ {first})

\* sorted_dates.index(date_str)
IndexOf(seq, x) == CHOOSE i \in 1..Len(seq) : seq[i] = x /\ \A j \in 1..(i - 1) : seq[j] # x

\* lines 116-124, with date_str among the sorted dates
ChangeAt(prices, sorted_dates, date_str) ==
  LET idx == IndexOf(sorted_dates, date_str)
  IN  IF idx + 1 > Len(sorted_dates) THEN NoChange
      ELSE LET price_today == prices[sorted_dates[idx]]
               price_next == prices[sorted_dates[idx + 1]]
           IN  IF price_today = 0 THEN NoChange
               ELSE [resolved |-> TRUE,
                     num |-> (price_next - price_today) * 100,
                     den |-> price_today]

\* (compute_next_day_changeNoSnap: without lines 110-114, a date that is not
\* known gives None)
compute_next_day_changeNoSnap(prices, date_str) ==
  LET sorted_dates == SortedSeq(DOMAIN prices)
  IN  IF date_str \notin DOMAIN prices THEN NoChange
      ELSE ChangeAt(prices, sorted_dates, date_str)

compute_next_day_change(prices, date_str) ==
  LET sorted_dates == SortedSeq(DOMAIN prices)
      OnOrAfter(d) == d >= date_str
      candidates == SelectSeq(sorted_dates, OnOrAfter)
  IN  IF date_str \notin DOMAIN prices
        THEN IF candidates = << >> THEN NoChange
             ELSE ChangeAt(prices, sorted_dates, candidates[1])
        ELSE ChangeAt(prices, sorted_dates, date_str)

(***************************************************************************)
(* backtester.py: compute_sentiment_score and build_backtest_table.  An    *)
(* article is [ticker, published, sentiment, confidence]; published is a   *)
(* time in half days (2 * day for the morning, 2 * day + 1 for the         *)
(* evening) and strftime("%Y-%m-%d") gives its day.  prices is a function  *)
(* from the tickers that have a series to their series.  A row is          *)
(* [ticker, date, sentiment_score, actual_change_pct, article_count] with  *)
(* the two floats kept as quotients [num, den].                            *)
(***************************************************************************)
\* one iteration of the loop of lines 131-135, on the pair of sums
\* (ScoreStepFiltered: with the filter of generate_signals copied in)
ScoreStepFiltered(sums, art) ==
  IF Polarity(art) = 0 /\ Conf(art) < 70 THEN sums
  ELSE [weighted_sum |-> sums.weighted_sum + Polarity(art) * Conf(art),
        weight_total |-> sums.weight_total + Conf(art)]

ScoreStep(sums, art) ==
  [weighted_sum |-> sums.weighted_sum + Polarity(art) * Conf(art),
   weight_total |-> sums.weight_total + Conf(art)]

RECURSIVE ScoreLoop(_, _, _)
ScoreLoop(sums, arts, i) ==
  IF i > Len(arts) THEN sums
  ELSE ScoreLoop(ScoreStep(sums, arts[i]), arts, i + 1)

compute_sentiment_score(arts) ==
  LET sums == ScoreLoop([weighted_sum |-> 0, weight_total |-> 0], arts, 1)
  IN  IF sums.weight_total > 0
        THEN [num |-> sums.weighted_sum, den |-> sums.weight_total]
        ELSE [num |-> 0, den |-> 1]

\* pub.strftime("%Y-%m-%d")
DateStr(published) == published \div 2

\* the key of line 146
GroupKey(art) == [ticker |-> art.ticker, date |-> DateStr(art.published)]

\* the tickers in the order of Python's string comparison
TickerOrder == <<"AAPL", "GC=F">>
TickerRank(ticker) == IndexOf(TickerOrder, ticker)

\* the comparison of two keys (ticker, date_str) by sorted()
KeyLess(k1, k2) ==
  \/ TickerRank(k1.ticker) < TickerRank(k2.ticker)
  \/ k1.ticker = k2.ticker /\ k1.date < k2.date

\* the keys of groups in the order of sorted(groups.items())
RECURSIVE SortedKeys(_)
SortedKeys(K) ==
  IF K = {} THEN << >>
  ELSE LET first == CHOOSE k \in K : \A other \in K \ {k} : KeyLess(k, other)
       IN  <<first>> \o SortedKeys(K \ {first})

\* the keys of groups in the order of groups.items(): first insertion
RECURSIVE InsertionKeys(_, _)
InsertionKeys(articles, seen) ==
  IF articles = << >> THEN << >>
  ELSE LET k == GroupKey(Head(articles))
       IN  IF k \in seen THEN InsertionKeys(Tail(articles), seen)
           ELSE <<k>> \o InsertionKeys(Tail(articles), seen \cup {k})

\* groups[(ticker, date_str)]
GroupOf(articles, key) ==
  LET InGroup(art) == GroupKey(art) = key
  IN  SelectSeq(articles, InGroup)

\* lines 149-162 for the keys from position i on
RECURSIVE TableLoop(_, _, _, _)
TableLoop(keys, i, articles, prices) ==
  IF i > Len(keys) THEN << >>
  ELSE LET key == keys[i]
           arts == GroupOf(articles, key)
           rest == TableLoop(keys, i + 1, articles, prices)
       IN  IF key.ticker \notin DOMAIN prices THEN rest
           ELSE LET change == compute_next_day_change(prices[key.ticker], key.date)
                IN  IF ~change.resolved THEN rest
                    ELSE <<[ticker |-> key.ticker,
                            date |-> key.date,
                            sentiment_score |-> compute_sentiment_score(arts),
                            actual_change_pct |-> [num |-> change.num, den |-> change.den],
                            article_count |-> Len(arts)]>> \o rest

\* (build_backtest_tablePerArticle: a row per article instead of per group)
build_backtest_tablePerArticle(articles, prices) ==
  TableLoop([i \in 1..Len(articles) |-> GroupKey(articles[i])], 1,
            articles, prices)

\* (build_backtest_tableUnsorted: groups.items() without sorted())
build_backtest_tableUnsorted(articles, prices) ==
  TableLoop(InsertionKeys(articles, {}), 1, articles, prices)

build_backtest_table(articles, prices) ==
  TableLoop(SortedKeys({GroupKey(articles[i]) : i \in 1..Len(articles)}), 1,
            articles, prices)

(***************************************************************************)
(* State.                                                                  *)
(*   config             the live thresholds of the config module           *)
(*   tokenizer, model   sentiment_analyzer._tokenizer and ._model          *)
(*   pc, runs           per thread: its position, and the runs of the      *)
(*                      pipeline it still has to start                     *)
(*   table, cur, optimal, ret, site                                        *)
(*                      per thread, auto_tune: its table, the config       *)
(*                      values it read at lines 422-423, the selected      *)
(*                      result, how the call ended and at which statement  *)
(*   pre, written       history: the config when auto_tune was entered     *)
(*                      (kept until its caller goes on), and the triples   *)
(*                      auto_tune runs started to write                    *)
(*   articles, tk, agg, rd, signals                                        *)
(*                      per thread, generate_signals: its argument, the    *)
(*                      position in ALL_TICKERS, the sums of the current   *)
(*                      ticker, the config values read at lines 63 and 65  *)
(*                      for it, and the result dict                        *)
(*   evTable, evBuy, evSell, evMin  arguments of a direct call of          *)
(*                      evaluate_thresholds                                *)
(*   evRes, evPrev      its result, and the result of the preceding call   *)
(*                      on the same table and thresholds with a lower      *)
(*                      min_articles                                       *)
(*   evPc               "input", "evaluated" or "raised" ("off" when no    *)
(*                      direct call is made)                               *)
(*   cdPrices, cdRef, cdRes  arguments and result of a direct call of      *)
(*                      compute_next_day_change                            *)
(*   btArticles, btPrices, btTable  arguments and result of a direct call  *)
(*                      of build_backtest_table                            *)
(*   swTable, swRes     argument and result of a direct call of            *)
(*                      sweep_thresholds                                   *)
(*   fnPc               "input" or "done" for these three calls ("off"     *)
(*                      when none is made)                                 *)
(*   sameTable          the evaluation table every auto_tune call builds   *)
(*                      in a process whose historical data do not change   *)
(*                      (SpecTwice; empty elsewhere)                       *)
(***************************************************************************)
VARIABLES config, tokenizer, model, pc, runs,
          table, cur, optimal, ret, site, pre, written,
          articles, tk, agg, rd, signals,
          evTable, evBuy, evSell, evMin, evRes, evPrev, evPc,
          cdPrices, cdRef, cdRes, btArticles, btPrices, btTable,
          swTable, swRes, fnPc, sameTable

fnVars == <<cdPrices, cdRef, cdRes, btArticles, btPrices, btTable,
            swTable, swRes, fnPc, sameTable>>
evVars == <<evTable, evBuy, evSell, evMin, evRes, evPrev, evPc, fnVars>>
finbertVars == <<tokenizer, model>>
tuneVars == <<table, cur, optimal, ret, site, pre>>
gsVars == <<articles, tk, agg, rd, signals>>
pipeVars == <<config, tokenizer, model, pc, runs, table, cur, optimal, ret,
              site, pre, written, articles, tk, agg, rd, signals>>
vars == <<config, tokenizer, model, pc, runs,
          table, cur, optimal, ret, site, pre, written,
          articles, tk, agg, rd, signals,
          evTable, evBuy, evSell, evMin, evRes, evPrev, evPc,
          cdPrices, cdRef, cdRes, btArticles, btPrices, btTable,
          swTable, swRes, fnPc, sameTable>>

(***************************************************************************)
(* Threads.  "main" is the process of main.py without --web, which runs    *)
(* run_pipeline from its schedule loop, one run after the other.           *)
(* "startup" and "refresh" are threads of dashboard.py (lines 71 and 110), *)
(* each running run_pipeline_and_save once.                                *)
(***************************************************************************)
Threads == {"main", "startup", "refresh"}

\* config.py, lines 48-50
InitialConfig == [BUY_THRESHOLD |-> 20, SELL_THRESHOLD |-> -5, MIN_ARTICLES |-> 1]

NoRead == [buy |-> 0, sell |-> 0, min |-> 0]
NoDecisionReads == [buy |-> 0, sell |-> 0, min_buy |-> 0, min_sell |-> 0]
NoSignals == << >>

(***************************************************************************)
(* Inputs of the evaluator.  A group of one article scores +1, -1 or 0     *)
(* (compute_sentiment_score divides polarity*conf by conf), so a row with  *)
(* article_count 1 has one of these three scores; larger groups take any   *)
(* value in between.                                                       *)
(***************************************************************************)
EvalScores == {-100, -30, 0, 25, 100}
EvalChanges == {-2, 0, 3}
EvalCounts == {1, 2}
EvalBuys == {5, 20}
EvalSells == {-5, 30}
EvalMins == {min_articles_options[i] : i \in DOMAIN min_articles_options}

RowOk(row) == row.article_count = 1 => row.sentiment_score \in {-100, 0, 100}

EvalRows ==
  {row \in [sentiment_score : EvalScores, actual_change_pct : EvalChanges,
            article_count : EvalCounts] : RowOk(row)}

SeqsUpTo(S, n) == UNION {[1..k -> S] : k \in 0..n}

(***************************************************************************)
(* Evaluation tables auto_tune can build.  A score of 0.1 or -0.1 needs a  *)
(* group of two articles; a single article scores +1, -1 or 0.  The        *)
(* threads of the dashboard interleave and get the shorter tables.         *)
(***************************************************************************)
Row(s, c, n) == [sentiment_score |-> s, actual_change_pct |-> c, article_count |-> n]

TuneRows ==
  {Row(100, 3, 1), Row(100, -2, 1),
   Row(10, 3, 2), Row(10, -2, 2), Row(-10, 3, 2), Row(0, 3, 1)}

\* a table on which configurations of different blocks of the sweep tie in
\* accuracy: (1, 0.10, -0.05) has three signals, all correct, and the later
\* (3, 0.05, -0.05) has four, all correct
TieTable ==
  <<Row(100, 3, 3), Row(100, 3, 3), Row(100, 3, 2),
    Row(10, 3, 3), Row(10, 3, 3), Row(10, -2, 2)>>

\* a table on which configurations of one block of the sweep tie in
\* accuracy and in signals: (1, 0.05, st) for st <= -0.10 and
\* (1, bt, -0.05) for bt >= 0.10 all have three signals, two correct, and
\* no configuration with three signals has a higher accuracy
OrderTable ==
  <<Row(100, 3, 1), Row(100, 3, 1), Row(10, -2, 2), Row(-10, 3, 2)>>

TuneTables == SeqsUpTo(TuneRows, MaxTuneRows) \cup {TieTable, OrderTable}
WebTables == SeqsUpTo(TuneRows, MaxWebRows)

TablesOf(t) == IF t = "main" THEN TuneTables ELSE WebTables

\* every article neutral with confidence 0 (lines 66-69 of
\* sentiment_analyzer.py): every group scores 0
IsNeutralised(tbl) == \A i \in 1..Len(tbl) : tbl[i].sentiment_score = 0

\* Select, tabulated over the tables of the model
Selected == [tbl \in TuneTables \cup WebTables |-> Select(tbl)] @@ << >>

(***************************************************************************)
(* Article lists collect_all_news and analyze_sentiment hand to            *)
(* generate_signals in a pipeline run: every article has a label of        *)
(* label_map and a confidence.  The title of an article is given by its    *)
(* position (titles are unique after _deduplicate).                        *)
(***************************************************************************)
Titles == <<"h1", "h2", "h3", "h4">>

WithTitles(seq) == [i \in DOMAIN seq |->
                      [ticker |-> seq[i].ticker, sentiment |-> seq[i].sentiment,
                       confidence |-> seq[i].confidence, title |-> Titles[i]]]

Scored(tkr, s, c) == [ticker |-> tkr, sentiment |-> s, confidence |-> c]

ScoredArticles ==
  {Scored("AAPL", "positive", 90), Scored("AAPL", "negative", 90),
   Scored("GC=F", "neutral", 40), Scored("GC=F", "neutral", 0)}

PipelineArticles ==
  {WithTitles(seq) : seq \in SeqsUpTo(ScoredArticles, MaxArticles)} \ {<< >>}

IsNeutralisedList(arts) ==
  \A i \in 1..Len(arts) : arts[i].sentiment = "neutral" /\ arts[i].confidence = 0

\* arguments of a direct call of generate_signals: keys may be missing
AnyArticles ==
  [ticker : {ALL_TICKERS[i] : i \in DOMAIN ALL_TICKERS},
   sentiment : {"positive", "negative", "neutral", Missing},
   confidence : {MissingConf, 40, 90}]

SignalArticles == {WithTitles(seq) : seq \in SeqsUpTo(AnyArticles, MaxSignalArticles)}

SignalConfigs ==
  [BUY_THRESHOLD : {5, 20}, SELL_THRESHOLD : {-5, 30}, MIN_ARTICLES : {1, 3}]

(***************************************************************************)
(* A call generate_signals(articles) under a config the process can hold:  *)
(* the one of config.py or a triple of the sweep's grid.  The articles are *)
(* any list of dicts: a sentiment may be missing or not a key of           *)
(* SENTIMENT_SCORES ("mixed"), a confidence may be missing or 0, a ticker  *)
(* may be off the watchlist ("XYZ").                                       *)
(***************************************************************************)
LiveConfigs ==
  {InitialConfig,
   [BUY_THRESHOLD |-> 5, SELL_THRESHOLD |-> -30, MIN_ARTICLES |-> 1],
   [BUY_THRESHOLD |-> 20, SELL_THRESHOLD |-> -5, MIN_ARTICLES |-> 3]}

LiveArticleKinds ==
  [ticker : {ALL_TICKERS[i] : i \in DOMAIN ALL_TICKERS} \cup {"XYZ"},
   sentiment : {"positive", "negative", "neutral", "mixed", Missing},
   confidence : {MissingConf, 0, 40, 90}]

LiveArticles == {WithTitles(seq) : seq \in SeqsUpTo(LiveArticleKinds, MaxLiveArticles)}

(***************************************************************************)
(* Initial states.                                                         *)
(***************************************************************************)
NoFn ==
  /\ cdPrices = << >>
  /\ cdRef = 0
  /\ cdRes = NoChange
  /\ btArticles = << >>
  /\ btPrices = << >>
  /\ btTable = << >>
  /\ swTable = << >>
  /\ swRes = << >>
  /\ sameTable = << >>
  /\ fnPc = "off"

NoEval ==
  /\ NoFn
  /\ evTable = << >>
  /\ evBuy = 0
  /\ evSell = 0
  /\ evMin = 0
  /\ evRes = NoResult
  /\ evPrev = NoResult
  /\ evPc = "off"

\* the process right after the import of config, with the runs given
Fresh(r) ==
  /\ config = InitialConfig
  /\ tokenizer = "None"
  /\ model = "None"
  /\ pc = [t \in Threads |-> "idle"]
  /\ runs = r
  /\ table = [t \in Threads |-> << >>]
  /\ cur = [t \in Threads |-> NoRead]
  /\ optimal = [t \in Threads |-> NoResult]
  /\ ret = [t \in Threads |-> "none"]
  /\ site = [t \in Threads |-> "none"]
  /\ pre = [t \in Threads |-> InitialConfig]
  /\ written = {}
  /\ articles = [t \in Threads |-> << >>]
  /\ tk = [t \in Threads |-> 0]
  /\ agg = [t \in Threads |-> NoAgg]
  /\ rd = [t \in Threads |-> NoDecisionReads]
  /\ signals = [t \in Threads |-> NoSignals]

\* main.py without --web: the schedule loop of the main thread
Init ==
  /\ Fresh([t \in Threads |-> IF t = "main" THEN MaxRuns ELSE 0])
  /\ NoEval

\* main.py --web: the startup run and one POST /refresh
WebInit ==
  /\ Fresh([t \in Threads |-> IF t = "main" THEN 0 ELSE 1])
  /\ NoEval

\* a direct call of evaluate_thresholds
EvalInit ==
  /\ Fresh([t \in Threads |-> 0])
  /\ evTable \in SeqsUpTo(EvalRows, MaxRows)
  /\ evBuy \in EvalBuys
  /\ evSell \in EvalSells
  /\ evMin \in EvalMins
  /\ evRes = NoResult
  /\ evPrev = NoResult
  /\ evPc = "input"
  /\ NoFn

(***************************************************************************)
(* A direct call of compute_next_day_change: any price series over the     *)
(* days 1..MaxDate and any reference day.                                  *)
(***************************************************************************)
Dates == 1..MaxDate
PriceValues == {0, 100, 102}
PriceSeries == UNION {[D -> PriceValues] : D \in SUBSET Dates}

ChangeInit ==
  /\ Fresh([t \in Threads |-> 0])
  /\ evTable = << >>
  /\ evBuy = 0
  /\ evSell = 0
  /\ evMin = 0
  /\ evRes = NoResult
  /\ evPrev = NoResult
  /\ evPc = "off"
  /\ cdPrices \in PriceSeries
  /\ cdRef \in Dates
  /\ cdRes = NoChange
  /\ btArticles = << >>
  /\ btPrices = << >>
  /\ btTable = << >>
  /\ swTable = << >>
  /\ swRes = << >>
  /\ sameTable = << >>
  /\ fnPc = "input"

ComputeNextDayChange ==
  /\ fnPc = "input"
  /\ cdRes' = compute_next_day_change(cdPrices, cdRef)
  /\ fnPc' = "done"
  /\ UNCHANGED <<cdPrices, cdRef, btArticles, btPrices, btTable, swTable, swRes, sameTable>>
  /\ UNCHANGED <<evTable, evBuy, evSell, evMin, evRes, evPrev, evPc>>
  /\ UNCHANGED pipeVars

SpecChange == ChangeInit /\ [][ComputeNextDayChange]_vars

(***************************************************************************)
(* A direct call of build_backtest_table on scored articles with dates and *)
(* on the price series fetch_price_data returned: a ticker may have none.  *)
(***************************************************************************)
ArticleDays == {1, 2}

HistoricalArticles ==
  {[ticker |-> tkr, published |-> 2 * d + h,
    sentiment |-> k.sentiment, confidence |-> k.confidence] :
     tkr \in {TickerOrder[i] : i \in DOMAIN TickerOrder},
     d \in ArticleDays, h \in {0, 1},
     k \in {[sentiment |-> "positive", confidence |-> 90],
            [sentiment |-> "negative", confidence |-> 40],
            [sentiment |-> "neutral", confidence |-> 40],
            [sentiment |-> "neutral", confidence |-> 0]}}

TableSeries ==
  {(1 :> 100) @@ (2 :> 102),
   (2 :> 100) @@ (3 :> 102),
   (1 :> 0) @@ (2 :> 100) @@ (3 :> 100)}

TablePrices ==
  UNION {[T -> TableSeries] : T \in SUBSET {TickerOrder[i] : i \in DOMAIN TickerOrder}}

TableInit ==
  /\ Fresh([t \in Threads |-> 0])
  /\ evTable = << >>
  /\ evBuy = 0
  /\ evSell = 0
  /\ evMin = 0
  /\ evRes = NoResult
  /\ evPrev = NoResult
  /\ evPc = "off"
  /\ cdPrices = << >>
  /\ cdRef = 0
  /\ cdRes = NoChange
  /\ btArticles \in SeqsUpTo(HistoricalArticles, MaxTableArticles)
  /\ btPrices \in TablePrices
  /\ btTable = << >>
  /\ swTable = << >>
  /\ swRes = << >>
  /\ sameTable = << >>
  /\ fnPc = "input"

BuildBacktestTable ==
  /\ fnPc = "input"
  /\ btTable' = build_backtest_table(btArticles, btPrices)
  /\ fnPc' = "done"
  /\ UNCHANGED <<cdPrices, cdRef, cdRes, btArticles, btPrices, swTable, swRes, sameTable>>
  /\ UNCHANGED <<evTable, evBuy, evSell, evMin, evRes, evPrev, evPc>>
  /\ UNCHANGED pipeVars

SpecTable == TableInit /\ [][BuildBacktestTable]_vars

(***************************************************************************)
(* A direct call of sweep_thresholds on a table auto_tune can build.       *)
(***************************************************************************)
SweepInit ==
  /\ Fresh([t \in Threads |-> 0])
  /\ evTable = << >>
  /\ evBuy = 0
  /\ evSell = 0
  /\ evMin = 0
  /\ evRes = NoResult
  /\ evPrev = NoResult
  /\ evPc = "off"
  /\ cdPrices = << >>
  /\ cdRef = 0
  /\ cdRes = NoChange
  /\ btArticles = << >>
  /\ btPrices = << >>
  /\ btTable = << >>
  /\ swTable \in TuneTables
  /\ swRes = << >>
  /\ sameTable = << >>
  /\ fnPc = "input"

SweepThresholds ==
  /\ fnPc = "input"
  /\ swRes' = sweep_thresholds(swTable)
  /\ fnPc' = "done"
  /\ UNCHANGED <<cdPrices, cdRef, cdRes, btArticles, btPrices, btTable, swTable,
               sameTable>>
  /\ UNCHANGED <<evTable, evBuy, evSell, evMin, evRes, evPrev, evPc>>
  /\ UNCHANGED pipeVars

SpecSweep == SweepInit /\ [][SweepThresholds]_vars

(***************************************************************************)
(* Direct calls of evaluate_thresholds.                                    *)
(***************************************************************************)
EvaluateThresholds ==
  /\ evPc = "input"
  /\ evRes' = evaluate_thresholds(evTable, evBuy, evSell, evMin)
  /\ evPc' = "evaluated"
  /\ UNCHANGED <<evTable, evBuy, evSell, evMin, evPrev>>
  /\ UNCHANGED fnVars
  /\ UNCHANGED pipeVars

\* a second call on the same table and thresholds with min_articles raised
EvaluateRaised ==
  /\ evPc = "evaluated"
  /\ \E m \in EvalMins :
       /\ m >= evMin
       /\ evMin' = m
       /\ evRes' = evaluate_thresholds(evTable, evBuy, evSell, m)
  /\ evPrev' = evRes
  /\ evPc' = "raised"
  /\ UNCHANGED <<evTable, evBuy, evSell>>
  /\ UNCHANGED fnVars
  /\ UNCHANGED pipeVars

EvalNext == EvaluateThresholds \/ EvaluateRaised

SpecEval == EvalInit /\ [][EvalNext]_vars

(***************************************************************************)
(* sentiment_analyzer.py: _load_model (lines 14-22), called first by       *)
(* analyze_sentiment outside any try.  With _tokenizer None either load    *)
(* can raise: the first leaves both globals None, the second leaves        *)
(* _tokenizer set and _model None, and then no later call loads again.     *)
(***************************************************************************)
LoadOutcomes ==
  IF tokenizer = "None"
    THEN {[tok |-> "None", mod |-> model, raised |-> TRUE],
          [tok |-> "loaded", mod |-> "None", raised |-> TRUE],
          [tok |-> "loaded", mod |-> "loaded", raised |-> FALSE]}
    ELSE {[tok |-> tokenizer, mod |-> model, raised |-> FALSE]}

(***************************************************************************)
(* A run of the pipeline: run_pipeline (main.py, 27-78) in "main",         *)
(* run_pipeline_and_save (dashboard.py, 25-57) in the dashboard's threads. *)
(* Both start with auto_tune() inside try / except Exception.              *)
(***************************************************************************)
StartRun(t) ==
  /\ pc[t] = "idle"
  /\ runs[t] > 0
  /\ runs' = [runs EXCEPT ![t] = @ - 1]
  /\ pc' = [pc EXCEPT ![t] = "at_collect"]
  /\ pre' = [pre EXCEPT ![t] = config]
  /\ ret' = [ret EXCEPT ![t] = "none"]
  /\ site' = [site EXCEPT ![t] = "none"]
  /\ UNCHANGED <<config, tokenizer, model, table, cur, optimal, written>>
  /\ UNCHANGED gsVars
  /\ UNCHANGED evVars

\* auto_tune, lines 407-410: collect_historical_news
\* (AutoTuneCollectResets: a variant that falls back to the thresholds of
\* config.py when there is no article)
AutoTuneCollectResets(t) ==
  /\ pc[t] = "at_collect"
  /\ \E some \in BOOLEAN :
       IF some
         THEN /\ pc' = [pc EXCEPT ![t] = "at_analyze"]
              /\ UNCHANGED <<ret, site, config>>
         ELSE /\ pc' = [pc EXCEPT ![t] = "collect"]
              /\ ret' = [ret EXCEPT ![t] = "False"]
              /\ site' = [site EXCEPT ![t] = "no_articles"]
              /\ config' = InitialConfig
  /\ UNCHANGED <<tokenizer, model, runs, table, cur, optimal, pre, written>>
  /\ UNCHANGED gsVars
  /\ UNCHANGED evVars

AutoTuneCollect(t) ==
  /\ pc[t] = "at_collect"
  /\ \E some \in BOOLEAN :
       IF some
         THEN /\ pc' = [pc EXCEPT ![t] = "at_analyze"]
              /\ UNCHANGED <<ret, site>>
         ELSE /\ pc' = [pc EXCEPT ![t] = "collect"]
              /\ ret' = [ret EXCEPT ![t] = "False"]
              /\ site' = [site EXCEPT ![t] = "no_articles"]
  /\ UNCHANGED <<config, tokenizer, model, runs, table, cur, optimal, pre, written>>
  /\ UNCHANGED gsVars
  /\ UNCHANGED evVars

\* (AutoTuneBuildUncaught: the caller without the try / except around
\* auto_tune: the exception of analyze_sentiment ends the run)
AutoTuneBuildUncaught(t) ==
  /\ pc[t] = "at_analyze"
  /\ \E o \in LoadOutcomes :
       /\ tokenizer' = o.tok
       /\ model' = o.mod
       /\ IF o.raised
            THEN /\ pc' = [pc EXCEPT ![t] = "crashed"]
                 /\ ret' = [ret EXCEPT ![t] = "raised"]
                 /\ site' = [site EXCEPT ![t] = "analyze_sentiment"]
                 /\ UNCHANGED table
            ELSE \E tbl \in TablesOf(t) :
                   /\ o.mod = "None" => IsNeutralised(tbl)
                   /\ table' = [table EXCEPT ![t] = tbl]
                   /\ IF tbl = << >>
                        THEN /\ pc' = [pc EXCEPT ![t] = "collect"]
                             /\ ret' = [ret EXCEPT ![t] = "False"]
                             /\ site' = [site EXCEPT ![t] = "no_data"]
                        ELSE /\ pc' = [pc EXCEPT ![t] = "at_read_buy"]
                             /\ UNCHANGED <<ret, site>>
  /\ UNCHANGED <<config, runs, cur, optimal, pre, written>>
  /\ UNCHANGED gsVars
  /\ UNCHANGED evVars

\* auto_tune, lines 412-420: analyze_sentiment, which raises when the model
\* does not load, then fetch_price_data and build_backtest_table
AutoTuneBuild(t) ==
  /\ pc[t] = "at_analyze"
  /\ \E o \in LoadOutcomes :
       /\ tokenizer' = o.tok
       /\ model' = o.mod
       /\ IF o.raised
            THEN /\ pc' = [pc EXCEPT ![t] = "collect"]
                 /\ ret' = [ret EXCEPT ![t] = "raised"]
                 /\ site' = [site EXCEPT ![t] = "analyze_sentiment"]
                 /\ UNCHANGED table
            ELSE \E tbl \in TablesOf(t) :
                   /\ o.mod = "None" => IsNeutralised(tbl)
                   /\ table' = [table EXCEPT ![t] = tbl]
                   /\ IF tbl = << >>
                        THEN /\ pc' = [pc EXCEPT ![t] = "collect"]
                             /\ ret' = [ret EXCEPT ![t] = "False"]
                             /\ site' = [site EXCEPT ![t] = "no_data"]
                        ELSE /\ pc' = [pc EXCEPT ![t] = "at_read_buy"]
                             /\ UNCHANGED <<ret, site>>
  /\ UNCHANGED <<config, runs, cur, optimal, pre, written>>
  /\ UNCHANGED gsVars
  /\ UNCHANGED evVars

\* auto_tune, line 422: the argument config.BUY_THRESHOLD
AutoTuneReadBuy(t) ==
  /\ pc[t] = "at_read_buy"
  /\ cur' = [cur EXCEPT ![t].buy = config.BUY_THRESHOLD]
  /\ pc' = [pc EXCEPT ![t] = "at_read_sell"]
  /\ UNCHANGED <<config, tokenizer, model, runs, table, optimal, ret, site, pre, written>>
  /\ UNCHANGED gsVars
  /\ UNCHANGED evVars

\* auto_tune, line 422: the argument config.SELL_THRESHOLD
AutoTuneReadSell(t) ==
  /\ pc[t] = "at_read_sell"
  /\ cur' = [cur EXCEPT ![t].sell = config.SELL_THRESHOLD]
  /\ pc' = [pc EXCEPT ![t] = "at_read_min"]
  /\ UNCHANGED <<config, tokenizer, model, runs, table, optimal, ret, site, pre, written>>
  /\ UNCHANGED gsVars
  /\ UNCHANGED evVars

\* the result `current` of lines 422-423 once the three arguments are read
\* (CurrentStale: with the values config.py had at import, as after
\* "from config import BUY_THRESHOLD, ...")
CurrentStale(tbl, c) ==
  evaluate_thresholds(tbl, InitialConfig.BUY_THRESHOLD,
                      InitialConfig.SELL_THRESHOLD, InitialConfig.MIN_ARTICLES)

Current(tbl, c) == evaluate_thresholds(tbl, c.buy, c.sell, c.min)

\* the test of line 436 (ShouldUpdateNotStrict: with >= for >)
ShouldUpdateNotStrict(opt, current) == ~AccGreater(current, opt)

ShouldUpdate(opt, current) == AccGreater(opt, current)

\* auto_tune, lines 423-436 and 450-454: the argument config.MIN_ARTICLES,
\* the evaluation of the current config, the sweep, the selection and the
\* comparison.  (The tuple `old` of line 437 and the logger.info of lines
\* 441-447 only read the config for the log.)
AutoTuneSelect(t) ==
  /\ pc[t] = "at_read_min"
  /\ LET c == [cur[t] EXCEPT !.min = config.MIN_ARTICLES]
         current == Current(table[t], c)
         sel == Selected[table[t]]
     IN  /\ cur' = [cur EXCEPT ![t] = c]
         /\ IF ~sel.found
              THEN /\ pc' = [pc EXCEPT ![t] = "collect"]
                   /\ ret' = [ret EXCEPT ![t] = "False"]
                   /\ site' = [site EXCEPT ![t] = "no_viable"]
                   /\ UNCHANGED optimal
              ELSE /\ optimal' = [optimal EXCEPT ![t] = sel.optimal]
                   /\ IF ShouldUpdate(sel.optimal, current)
                        THEN /\ pc' = [pc EXCEPT ![t] = "at_write_buy"]
                             /\ UNCHANGED <<ret, site>>
                        ELSE /\ pc' = [pc EXCEPT ![t] = "collect"]
                             /\ ret' = [ret EXCEPT ![t] = "False"]
                             /\ site' = [site EXCEPT ![t] = "kept"]
  /\ UNCHANGED <<config, tokenizer, model, runs, table, pre, written>>
  /\ UNCHANGED gsVars
  /\ UNCHANGED evVars

Triple(r) ==
  [BUY_THRESHOLD |-> r.buy_threshold, SELL_THRESHOLD |-> r.sell_threshold,
   MIN_ARTICLES |-> r.min_articles]

\* auto_tune, line 438
AutoTuneWriteBuy(t) ==
  /\ pc[t] = "at_write_buy"
  /\ config' = [config EXCEPT !.BUY_THRESHOLD = optimal[t].buy_threshold]
  /\ written' = written \cup {Triple(optimal[t])}
  /\ pc' = [pc EXCEPT ![t] = "at_write_sell"]
  /\ UNCHANGED <<tokenizer, model, runs, table, cur, optimal, ret, site, pre>>
  /\ UNCHANGED gsVars
  /\ UNCHANGED evVars

\* auto_tune, line 439
AutoTuneWriteSell(t) ==
  /\ pc[t] = "at_write_sell"
  /\ config' = [config EXCEPT !.SELL_THRESHOLD = optimal[t].sell_threshold]
  /\ pc' = [pc EXCEPT ![t] = "at_write_min"]
  /\ UNCHANGED <<tokenizer, model, runs, table, cur, optimal, ret, site, pre, written>>
  /\ UNCHANGED gsVars
  /\ UNCHANGED evVars

\* auto_tune, lines 440-448
AutoTuneWriteMin(t) ==
  /\ pc[t] = "at_write_min"
  /\ config' = [config EXCEPT !.MIN_ARTICLES = optimal[t].min_articles]
  /\ pc' = [pc EXCEPT ![t] = "collect"]
  /\ ret' = [ret EXCEPT ![t] = "True"]
  /\ site' = [site EXCEPT ![t] = "updated"]
  /\ UNCHANGED <<tokenizer, model, runs, table, cur, optimal, pre, written>>
  /\ UNCHANGED gsVars
  /\ UNCHANGED evVars

\* the end of a run: its locals are gone
EndRun(t, how) ==
  /\ pc' = [pc EXCEPT ![t] = how]
  /\ table' = [table EXCEPT ![t] = << >>]
  /\ cur' = [cur EXCEPT ![t] = NoRead]
  /\ optimal' = [optimal EXCEPT ![t] = NoResult]
  /\ articles' = [articles EXCEPT ![t] = << >>]
  /\ tk' = [tk EXCEPT ![t] = 0]
  /\ agg' = [agg EXCEPT ![t] = NoAgg]
  /\ rd' = [rd EXCEPT ![t] = NoDecisionReads]
  /\ signals' = [signals EXCEPT ![t] = NoSignals]

\* the caller after auto_tune returned or raised (main.py 38-45, dashboard.py
\* 32-38): collect_all_news, and the end of the run without articles
CollectNews(t) ==
  /\ pc[t] = "collect"
  /\ \E some \in BOOLEAN :
       IF some
         THEN /\ pc' = [pc EXCEPT ![t] = "analyze"]
              /\ table' = [table EXCEPT ![t] = << >>]
              /\ cur' = [cur EXCEPT ![t] = NoRead]
              /\ optimal' = [optimal EXCEPT ![t] = NoResult]
              /\ UNCHANGED gsVars
         ELSE EndRun(t, "idle")
  /\ site' = [site EXCEPT ![t] = "none"]
  /\ pre' = [pre EXCEPT ![t] = InitialConfig]
  /\ UNCHANGED <<config, tokenizer, model, runs, ret, written>>
  /\ UNCHANGED evVars

\* analyze_sentiment of the collected articles (main.py 49, dashboard.py
\* 40), not in a try: a failing _load_model ends the run with the exception
AnalyzeNews(t) ==
  /\ pc[t] = "analyze"
  /\ \E o \in LoadOutcomes :
       /\ tokenizer' = o.tok
       /\ model' = o.mod
       /\ IF o.raised
            THEN EndRun(t, "crashed")
            ELSE /\ \E arts \in PipelineArticles :
                      /\ o.mod = "None" => IsNeutralisedList(arts)
                      /\ articles' = [articles EXCEPT ![t] = arts]
                 /\ pc' = [pc EXCEPT ![t] = "gs_ticker"]
                 /\ tk' = [tk EXCEPT ![t] = 1]
                 /\ UNCHANGED <<table, cur, optimal, agg, rd, signals>>
  /\ UNCHANGED <<config, runs, ret, site, pre, written>>
  /\ UNCHANGED evVars

(***************************************************************************)
(* signal_generator.py: generate_signals, one ticker of the loop of line   *)
(* 32 at a time, one read of the config module at a time.                  *)
(***************************************************************************)
Ticker(t) == ALL_TICKERS[tk[t]]
TickerArticles(t) == ByTicker(articles[t], Ticker(t))

\* signals[ticker] = entry, and the next iteration or the return
Emit(t, entry) ==
  /\ signals' = [signals EXCEPT ![t] = (Ticker(t) :> entry) @@ @]
  /\ IF tk[t] < Len(ALL_TICKERS)
       THEN /\ tk' = [tk EXCEPT ![t] = @ + 1]
            /\ pc' = [pc EXCEPT ![t] = "gs_ticker"]
       ELSE /\ tk' = tk
            /\ pc' = [pc EXCEPT ![t] = "deliver"]

\* lines 33-60: the ticker's articles and their sums
\* (GsTickerNoEmpty: a variant that gives a ticker without articles no entry)
GsTickerNoEmpty(t) ==
  /\ pc[t] = "gs_ticker"
  /\ rd' = [rd EXCEPT ![t] = NoDecisionReads]
  /\ IF Len(TickerArticles(t)) = 0
       THEN /\ signals' = signals
            /\ IF tk[t] < Len(ALL_TICKERS)
                 THEN /\ tk' = [tk EXCEPT ![t] = @ + 1]
                      /\ pc' = [pc EXCEPT ![t] = "gs_ticker"]
                 ELSE /\ tk' = tk
                      /\ pc' = [pc EXCEPT ![t] = "deliver"]
            /\ agg' = [agg EXCEPT ![t] = NoAgg]
       ELSE /\ agg' = [agg EXCEPT ![t] = Aggregate(TickerArticles(t))]
            /\ pc' = [pc EXCEPT ![t] = "gs_read_buy"]
            /\ UNCHANGED <<tk, signals>>
  /\ UNCHANGED <<config, tokenizer, model, runs, written, articles>>
  /\ UNCHANGED tuneVars
  /\ UNCHANGED evVars

GsTicker(t) ==
  /\ pc[t] = "gs_ticker"
  /\ rd' = [rd EXCEPT ![t] = NoDecisionReads]
  /\ IF Len(TickerArticles(t)) = 0
       THEN /\ Emit(t, empty_signal)
            /\ agg' = [agg EXCEPT ![t] = NoAgg]
       ELSE /\ agg' = [agg EXCEPT ![t] = Aggregate(TickerArticles(t))]
            /\ pc' = [pc EXCEPT ![t] = "gs_read_buy"]
            /\ UNCHANGED <<tk, signals>>
  /\ UNCHANGED <<config, tokenizer, model, runs, written, articles>>
  /\ UNCHANGED tuneVars
  /\ UNCHANGED evVars

\* line 63: avg_score > config.BUY_THRESHOLD
GsReadBuy(t) ==
  /\ pc[t] = "gs_read_buy"
  /\ rd' = [rd EXCEPT ![t].buy = config.BUY_THRESHOLD]
  /\ pc' = [pc EXCEPT ![t] = IF AvgGreater(agg[t], config.BUY_THRESHOLD)
                               THEN "gs_min_buy" ELSE "gs_read_sell"]
  /\ UNCHANGED <<config, tokenizer, model, runs, written, articles, tk, agg, signals>>
  /\ UNCHANGED tuneVars
  /\ UNCHANGED evVars

\* line 63: and count >= config.MIN_ARTICLES
GsMinBuy(t) ==
  /\ pc[t] = "gs_min_buy"
  /\ rd' = [rd EXCEPT ![t].min_buy = config.MIN_ARTICLES]
  /\ IF agg[t].count >= config.MIN_ARTICLES
       THEN Emit(t, SignalEntry("BUY", agg[t], TickerArticles(t)))
       ELSE /\ pc' = [pc EXCEPT ![t] = "gs_read_sell"]
            /\ UNCHANGED <<tk, signals>>
  /\ UNCHANGED <<config, tokenizer, model, runs, written, articles, agg>>
  /\ UNCHANGED tuneVars
  /\ UNCHANGED evVars

\* line 65: avg_score < config.SELL_THRESHOLD, and the else of line 67
GsReadSell(t) ==
  /\ pc[t] = "gs_read_sell"
  /\ rd' = [rd EXCEPT ![t].sell = config.SELL_THRESHOLD]
  /\ IF AvgLess(agg[t], config.SELL_THRESHOLD)
       THEN /\ pc' = [pc EXCEPT ![t] = "gs_min_sell"]
            /\ UNCHANGED <<tk, signals>>
       ELSE Emit(t, SignalEntry("HOLD", agg[t], TickerArticles(t)))
  /\ UNCHANGED <<config, tokenizer, model, runs, written, articles, agg>>
  /\ UNCHANGED tuneVars
  /\ UNCHANGED evVars

\* line 65: and count >= config.MIN_ARTICLES, and the else of line 67
\* (GsMinSellNoCount: a variant without the test of the count)
GsMinSellNoCount(t) ==
  /\ pc[t] = "gs_min_sell"
  /\ rd' = [rd EXCEPT ![t].min_sell = config.MIN_ARTICLES]
  /\ Emit(t, SignalEntry("SELL", agg[t], TickerArticles(t)))
  /\ UNCHANGED <<config, tokenizer, model, runs, written, articles, agg>>
  /\ UNCHANGED tuneVars
  /\ UNCHANGED evVars

GsMinSell(t) ==
  /\ pc[t] = "gs_min_sell"
  /\ rd' = [rd EXCEPT ![t].min_sell = config.MIN_ARTICLES]
  /\ IF agg[t].count >= config.MIN_ARTICLES
       THEN Emit(t, SignalEntry("SELL", agg[t], TickerArticles(t)))
       ELSE Emit(t, SignalEntry("HOLD", agg[t], TickerArticles(t)))
  /\ UNCHANGED <<config, tokenizer, model, runs, written, articles, agg>>
  /\ UNCHANGED tuneVars
  /\ UNCHANGED evVars

\* the rest of the run: the digest, the dashboard file, the publication
Deliver(t) ==
  /\ pc[t] = "deliver"
  /\ EndRun(t, "idle")
  /\ UNCHANGED <<config, tokenizer, model, runs, ret, site, pre, written>>
  /\ UNCHANGED evVars

Next ==
  \E t \in Threads :
    \/ StartRun(t)
    \/ AutoTuneCollect(t)
    \/ AutoTuneBuild(t)
    \/ AutoTuneReadBuy(t)
    \/ AutoTuneReadSell(t)
    \/ AutoTuneSelect(t)
    \/ AutoTuneWriteBuy(t)
    \/ AutoTuneWriteSell(t)
    \/ AutoTuneWriteMin(t)
    \/ CollectNews(t)
    \/ AnalyzeNews(t)
    \/ GsTicker(t)
    \/ GsReadBuy(t)
    \/ GsMinBuy(t)
    \/ GsReadSell(t)
    \/ GsMinSell(t)
    \/ Deliver(t)

\* main.py without --web
Spec == Init /\ [][Next]_vars

\* main.py --web
SpecWeb == WebInit /\ [][Next]_vars

(***************************************************************************)
(* main.py without --web in a process whose historical data do not change  *)
(* between the runs: every auto_tune call collects articles, analyses them *)
(* and builds the same evaluation table.                                   *)
(***************************************************************************)
TwiceInit ==
  /\ Fresh([t \in Threads |-> IF t = "main" THEN MaxRuns ELSE 0])
  /\ evTable = << >>
  /\ evBuy = 0
  /\ evSell = 0
  /\ evMin = 0
  /\ evRes = NoResult
  /\ evPrev = NoResult
  /\ evPc = "off"
  /\ cdPrices = << >>
  /\ cdRef = 0
  /\ cdRes = NoChange
  /\ btArticles = << >>
  /\ btPrices = << >>
  /\ btTable = << >>
  /\ swTable = << >>
  /\ swRes = << >>
  /\ fnPc = "off"
  /\ sameTable \in TuneTables

\* the steps of such a process: auto_tune does not end at line 409 or in
\* analyze_sentiment, and the table of line 417 is sameTable
SameData ==
  \A t \in Threads :
    /\ site'[t] \notin {"no_articles", "analyze_sentiment"}
    /\ pc[t] = "at_analyze" => table'[t] = sameTable

TwiceNext ==
  \E t \in Threads :
    \/ StartRun(t) /\ SameData
    \/ AutoTuneCollect(t) /\ SameData
    \/ AutoTuneBuild(t) /\ SameData
    \/ AutoTuneReadBuy(t) /\ SameData
    \/ AutoTuneReadSell(t) /\ SameData
    \/ AutoTuneSelect(t) /\ SameData
    \/ AutoTuneWriteBuy(t) /\ SameData
    \/ AutoTuneWriteSell(t) /\ SameData
    \/ AutoTuneWriteMin(t) /\ SameData
    \/ CollectNews(t) /\ SameData
    \/ AnalyzeNews(t) /\ SameData
    \/ GsTicker(t) /\ SameData
    \/ GsReadBuy(t) /\ SameData
    \/ GsMinBuy(t) /\ SameData
    \/ GsReadSell(t) /\ SameData
    \/ GsMinSell(t) /\ SameData
    \/ Deliver(t) /\ SameData

SpecTwice == TwiceInit /\ [][TwiceNext]_vars

(***************************************************************************)
(* A direct call generate_signals(articles) under any config.              *)
(***************************************************************************)
SignalInit ==
  /\ config \in SignalConfigs
  /\ tokenizer = "loaded"
  /\ model = "loaded"
  /\ pc = [t \in Threads |-> IF t = "main" THEN "gs_ticker" ELSE "idle"]
  /\ runs = [t \in Threads |-> 0]
  /\ table = [t \in Threads |-> << >>]
  /\ cur = [t \in Threads |-> NoRead]
  /\ optimal = [t \in Threads |-> NoResult]
  /\ ret = [t \in Threads |-> "none"]
  /\ site = [t \in Threads |-> "none"]
  /\ pre = [t \in Threads |-> config]
  /\ written = {}
  /\ \E arts \in SignalArticles :
       articles = [t \in Threads |-> IF t = "main" THEN arts ELSE << >>]
  /\ tk = [t \in Threads |-> IF t = "main" THEN 1 ELSE 0]
  /\ agg = [t \in Threads |-> NoAgg]
  /\ rd = [t \in Threads |-> NoDecisionReads]
  /\ signals = [t \in Threads |-> NoSignals]
  /\ NoEval

SignalNext ==
  \E t \in Threads :
    \/ GsTicker(t)
    \/ GsReadBuy(t)
    \/ GsMinBuy(t)
    \/ GsReadSell(t)
    \/ GsMinSell(t)

SpecSignal == SignalInit /\ [][SignalNext]_vars

\* a call under a live config
LiveInit ==
  /\ config \in LiveConfigs
  /\ tokenizer = "loaded"
  /\ model = "loaded"
  /\ pc = [t \in Threads |-> IF t = "main" THEN "gs_ticker" ELSE "idle"]
  /\ runs = [t \in Threads |-> 0]
  /\ table = [t \in Threads |-> << >>]
  /\ cur = [t \in Threads |-> NoRead]
  /\ optimal = [t \in Threads |-> NoResult]
  /\ ret = [t \in Threads |-> "none"]
  /\ site = [t \in Threads |-> "none"]
  /\ pre = [t \in Threads |-> config]
  /\ written = {}
  /\ \E arts \in LiveArticles :
       articles = [t \in Threads |-> IF t = "main" THEN arts ELSE << >>]
  /\ tk = [t \in Threads |-> IF t = "main" THEN 1 ELSE 0]
  /\ agg = [t \in Threads |-> NoAgg]
  /\ rd = [t \in Threads |-> NoDecisionReads]
  /\ signals = [t \in Threads |-> NoSignals]
  /\ NoEval

SpecLive == LiveInit /\ [][SignalNext]_vars

(***************************************************************************)
(* Properties of evaluate_thresholds (SpecEval).                           *)
(***************************************************************************)
CountRows(S) == Cardinality(S)
EvIdx == 1..Len(evTable)
EvEnough(i) == ~(evTable[i].article_count < evMin)
EvBuyRow(i) == EvEnough(i) /\ evTable[i].sentiment_score > evBuy
EvSellRow(i) ==
  /\ EvEnough(i)
  /\ ~(evTable[i].sentiment_score > evBuy)
  /\ evTable[i].sentiment_score < evSell

\* C2: each row is HOLD when article_count < min_articles, else BUY when
\* score > buy_threshold (right iff change > 0, so a change of 0 is a wrong
\* BUY), else SELL when score < sell_threshold (right iff change < 0), else
\* HOLD; no row is both BUY and SELL, and with sell_threshold >
\* buy_threshold a score strictly between the two is a BUY.
C2_RowClassification ==
  evPc = "evaluated" =>
    /\ evRes.tp_buy =
         CountRows({i \in EvIdx : EvBuyRow(i) /\ evTable[i].actual_change_pct > 0})
    /\ evRes.fp_buy =
         CountRows({i \in EvIdx : EvBuyRow(i) /\ ~(evTable[i].actual_change_pct > 0)})
    /\ evRes.tp_sell =
         CountRows({i \in EvIdx : EvSellRow(i) /\ evTable[i].actual_change_pct < 0})
    /\ evRes.fp_sell =
         CountRows({i \in EvIdx : EvSellRow(i) /\ ~(evTable[i].actual_change_pct < 0)})
    /\ evRes.hold_count =
         CountRows({i \in EvIdx : ~EvBuyRow(i) /\ ~EvSellRow(i)})
    /\ evRes.tp_buy + evRes.fp_buy >=
         CountRows({i \in EvIdx : /\ EvEnough(i)
                                  /\ evTable[i].sentiment_score > evBuy
                                  /\ evTable[i].sentiment_score < evSell})

\* a misconfigured pair (sell > buy), a row strictly between the two whose
\* price did not move, counted as a wrong BUY
C2_Witness ==
  /\ evPc = "evaluated"
  /\ evSell > evBuy
  /\ \E i \in EvIdx : /\ EvEnough(i)
                       /\ evTable[i].sentiment_score > evBuy
                       /\ evTable[i].sentiment_score < evSell
                       /\ evTable[i].actual_change_pct = 0
  /\ evRes.fp_buy >= 1
  /\ evRes.tp_sell + evRes.fp_sell = 0

\* C7: total_signals + hold_count is the number of rows of the table.
C7_EveryRowOnce ==
  evPc # "input" => evRes.total_signals + evRes.hold_count = Len(evTable)

C7_Witness ==
  /\ evPc = "evaluated"
  /\ Len(evTable) >= 2
  /\ evRes.total_signals >= 1
  /\ evRes.hold_count >= 1
  /\ \E i \in EvIdx : EvEnough(i) /\ ~EvBuyRow(i) /\ ~EvSellRow(i)

\* C8: total_signals is the sum of the four confusion-matrix counts,
\* correct = tp_buy + tp_sell <= total_signals, accuracy is
\* correct / total_signals, lies in [0, 1], and is 0 without signals.
C8_Counts ==
  evPc # "input" =>
    /\ evRes.total_signals =
         evRes.tp_buy + evRes.fp_buy + evRes.tp_sell + evRes.fp_sell
    /\ evRes.correct = evRes.tp_buy + evRes.tp_sell
    /\ evRes.correct <= evRes.total_signals
    /\ evRes.acc_den > 0
    /\ 0 <= evRes.acc_num /\ evRes.acc_num <= evRes.acc_den
    /\ evRes.total_signals > 0 =>
         evRes.acc_num * evRes.total_signals = evRes.correct * evRes.acc_den
    /\ evRes.total_signals = 0 => evRes.acc_num = 0

C8_Witness ==
  /\ evPc = "evaluated"
  /\ evRes.fp_sell >= 1
  /\ evRes.tp_buy >= 1
  /\ evRes.correct < evRes.total_signals

\* C9: with the table and the two thresholds fixed, raising min_articles
\* never lowers hold_count and never raises total_signals, and a row that
\* is a HOLD under the lower value is a HOLD under the higher one.
IsHoldRow(row, m) == EvalRow(ZeroCounts, row, evBuy, evSell, m).hold_count = 1

C9_HoldMonotone ==
  evPc = "raised" =>
    /\ evPrev.min_articles <= evRes.min_articles
    /\ evPrev.hold_count <= evRes.hold_count
    /\ evRes.total_signals <= evPrev.total_signals
    /\ \A i \in EvIdx :
         IsHoldRow(evTable[i], evPrev.min_articles)
           => IsHoldRow(evTable[i], evRes.min_articles)

C9_Witness ==
  /\ evPc = "raised"
  /\ evPrev.min_articles < evRes.min_articles
  /\ evPrev.hold_count < evRes.hold_count
  /\ evPrev.hold_count >= 1

(***************************************************************************)
(* Properties of generate_signals (SpecSignal).                            *)
(***************************************************************************)
\* the decision in the priority order of the specification
PrioritySignal(count, num, den, cfg) ==
  IF count < cfg.MIN_ARTICLES THEN "HOLD"
  ELSE IF 100 * num > cfg.BUY_THRESHOLD * den THEN "BUY"
  ELSE IF 100 * num < cfg.SELL_THRESHOLD * den THEN "SELL"
  ELSE "HOLD"

\* C1: for every asset with at least one article the signal is HOLD when
\* article_count < MIN_ARTICLES, else BUY when the weighted score exceeds
\* BUY_THRESHOLD, else SELL when it is below SELL_THRESHOLD, else HOLD, for
\* every config, those with SELL_THRESHOLD >= BUY_THRESHOLD included.
C1_SignalPriority ==
  \A t \in Threads :
    \A ticker \in DOMAIN signals[t] :
      LET e == signals[t][ticker]
      IN  e.article_count > 0 =>
            e.signal = PrioritySignal(e.article_count, e.score_num,
                                      e.score_den, config)

\* a config with SELL_THRESHOLD > BUY_THRESHOLD and an asset whose score
\* passes the BUY test and the SELL test, with too few articles: HOLD
C1_Witness ==
  /\ config.SELL_THRESHOLD > config.BUY_THRESHOLD
  /\ \E ticker \in DOMAIN signals["main"] :
       LET e == signals["main"][ticker]
       IN  /\ e.article_count > 0
           /\ e.article_count < config.MIN_ARTICLES
           /\ 100 * e.score_num > config.BUY_THRESHOLD * e.score_den
           /\ 100 * e.score_num < config.SELL_THRESHOLD * e.score_den
           /\ e.signal = "HOLD"

(***************************************************************************)
(* Properties of auto_tune in the sequential process (Spec).               *)
(***************************************************************************)
\* auto_tune has ended in thread t and its caller has not gone on
Ended(t) == pc[t] = "collect"
Returned(t) == Ended(t) /\ ret[t] \in {"True", "False"}

\* the evaluation of the config the call found on entry
EntryResult(t) ==
  evaluate_thresholds(table[t], pre[t].BUY_THRESHOLD, pre[t].SELL_THRESHOLD,
                      pre[t].MIN_ARTICLES)

\* C3: auto_tune overwrites the live config with the optimal triple iff the
\* optimal accuracy is strictly greater than the accuracy of the live
\* config on the same table, and leaves all three values unchanged
\* otherwise; it returns True exactly when it overwrote, and then the
\* config differs from the one before the call.
C3_UpdateIffBetter ==
  \A t \in Threads :
    Returned(t) =>
      LET sel == Selected[table[t]]
          better == sel.found /\ AccGreater(sel.optimal, EntryResult(t))
      IN  /\ (ret[t] = "True") <=> better
          /\ better => config = Triple(sel.optimal) /\ config # pre[t]
          /\ ~better => config = pre[t]

\* a second call that updates an already tuned config
C3_Witness ==
  /\ Returned("main")
  /\ ret["main"] = "True"
  /\ pre["main"] # InitialConfig
  /\ config # pre["main"]
  /\ config = Triple(optimal["main"])

\* C5: a call of auto_tune never ends by raising, whatever its
\* collaborators do.
C5_NeverRaises == \A t \in Threads : ret[t] # "raised"

\* no configuration of the grid gives a signal on the table
NoSignalAnywhere(tbl) ==
  \A k \in 1..GridSize :
    evaluate_thresholds(tbl, GridBuy(k), GridSell(k), GridMin(k)).total_signals < 1

\* C6: when auto_tune has no historical article, builds an empty table or
\* finds no sweep configuration with a signal, it returns False and the
\* live config is what it was before the call.
C6_DataUnavailable ==
  \A t \in Threads :
    (Ended(t) /\ ret[t] # "raised") =>
      /\ (table[t] = << >> \/ NoSignalAnywhere(table[t]))
           <=> site[t] \in {"no_articles", "no_data", "no_viable"}
      /\ site[t] \in {"no_articles", "no_data", "no_viable"}
           => ret[t] = "False" /\ config = pre[t]

\* a tuned config that survives a call without a viable configuration
C6_Witness ==
  /\ Ended("main")
  /\ site["main"] = "no_viable"
  /\ table["main"] # << >>
  /\ ret["main"] = "False"
  /\ pre["main"] # InitialConfig
  /\ config = pre["main"]

\* C10: the viable set is the configurations with total_signals >= 3, or,
\* only when there is none, those with total_signals >= 1; when that is
\* empty too nothing is selected and auto_tune reports it; a selected
\* configuration is viable, no viable one has a higher accuracy, and none
\* with the same accuracy has more signals.
C10_Selection ==
  \A t \in Threads :
    cur[t].min # 0 =>
      LET all_results == sweep_thresholds(table[t]) @@ << >>
          K3 == {k \in DOMAIN all_results : all_results[k].total_signals >= 3}
          K1 == {k \in DOMAIN all_results : all_results[k].total_signals >= 1}
          V == IF K3 # {} THEN K3 ELSE K1
      IN  IF V = {}
            THEN /\ optimal[t] = NoResult
                 /\ Ended(t) /\ site[t] = "no_viable" /\ ret[t] = "False"
            ELSE /\ \E k \in V : all_results[k] = optimal[t]
                 /\ \A j \in V :
                      /\ ~AccGreater(all_results[j], optimal[t])
                      /\ AccEqual(all_results[j], optimal[t])
                           => all_results[j].total_signals <= optimal[t].total_signals

\* no configuration with three signals: the selection among those with one
C10_Witness ==
  /\ cur["main"].min # 0
  /\ Len(table["main"]) >= 3
  /\ optimal["main"] # NoResult
  /\ optimal["main"].total_signals \in {1, 2}
  /\ optimal["main"].acc_num < optimal["main"].acc_den

(***************************************************************************)
(* Properties of the dashboard's threads (SpecWeb).                        *)
(***************************************************************************)
\* the values read for a decision are those of the triple
ReadsAgree(r, trip) ==
  /\ r.buy = 0 \/ r.buy = trip.BUY_THRESHOLD
  /\ r.sell = 0 \/ r.sell = trip.SELL_THRESHOLD
  /\ r.min_buy = 0 \/ r.min_buy = trip.MIN_ARTICLES
  /\ r.min_sell = 0 \/ r.min_sell = trip.MIN_ARTICLES

\* thread t has taken the decision of a ticker
Decided(t) == pc[t] \in {"gs_ticker", "deliver"} /\ rd[t] # NoDecisionReads

\* C4: every signal decision is taken with the initial config or with the
\* complete triple written by one auto_tune run, never with a mixture.
C4_NoMixedTriple ==
  \A t \in Threads :
    Decided(t) => \E trip \in {InitialConfig} \cup written : ReadsAgree(rd[t], trip)

(***************************************************************************)
(* Properties of the aggregation of generate_signals (SpecLive), stated on *)
(* the articles of the call and the entries of its result.                 *)
(***************************************************************************)
\* the positions in the argument of the articles of a ticker
PositionsOf(t, ticker) ==
  {i \in 1..Len(articles[t]) : articles[t][i].ticker = ticker}

\* polarity and weight of the article at position i, as the specification
\* gives them
PolarityAt(t, i) ==
  CASE articles[t][i].sentiment = "positive" -> 1
    [] articles[t][i].sentiment = "negative" -> -1
    [] OTHER -> 0

WeightAt(t, i) ==
  IF articles[t][i].confidence = MissingConf THEN 50
  ELSE articles[t][i].confidence

\* the articles of a ticker that survive the dilution filter
Dropped(t, i) == PolarityAt(t, i) = 0 /\ WeightAt(t, i) < 70
Survivors(t, ticker) == {i \in PositionsOf(t, ticker) : ~Dropped(t, i)}

RECURSIVE SumWeights(_, _)
SumWeights(t, S) ==
  IF S = {} THEN 0
  ELSE LET i == CHOOSE x \in S : TRUE
       IN  WeightAt(t, i) + SumWeights(t, S \ {i})

RECURSIVE SumPolarities(_, _)
SumPolarities(t, S) ==
  IF S = {} THEN 0
  ELSE LET i == CHOOSE x \in S : TRUE
       IN  PolarityAt(t, i) * WeightAt(t, i) + SumPolarities(t, S \ {i})

\* v is the integer nearest to n / d (d > 0)
Nearest(v, n, d) == 2 * (v * d - n) <= d /\ 2 * (n - v * d) <= d

\* C11: for an asset with at least one article, an article is left out of
\* the weighted sum exactly when its polarity is 0 and its weight is below
\* 0.7; the score is the sum of polarity * weight over the other articles
\* divided by the sum of their weights (reported to three decimals), and 0
\* when that sum is 0; article_count counts all the asset's articles.  A
\* single neutral article of confidence 0.4 gives score 0, HOLD and
\* article_count 1.
C11_DilutionFilter ==
  \A t \in Threads :
    \A ticker \in DOMAIN signals[t] :
      LET e == signals[t][ticker]
          S == Survivors(t, ticker)
          ws == SumPolarities(t, S)
          wt == SumWeights(t, S)
          all == PositionsOf(t, ticker)
      IN  all # {} =>
            /\ e.article_count = Cardinality(all)
            /\ IF wt = 0
                 THEN e.score_num = 0 /\ e.score = 0
                 ELSE /\ e.score_num * wt = ws * e.score_den
                      /\ Nearest(e.score, 1000 * ws, wt)
            /\ (/\ Cardinality(all) = 1
                /\ \E i \in all : /\ articles[t][i].sentiment = "neutral"
                                   /\ articles[t][i].confidence = 40)
                 => e.score = 0 /\ e.signal = "HOLD" /\ e.article_count = 1

\* an asset with a dropped article and a surviving one, and a score that
\* is not 0
C11_Witness ==
  \E ticker \in DOMAIN signals["main"] :
    /\ Cardinality(PositionsOf("main", ticker)) = 2
    /\ Cardinality(Survivors("main", ticker)) = 1
    /\ \E i \in PositionsOf("main", ticker) :
         Dropped("main", i) /\ WeightAt("main", i) > 0
    /\ signals["main"][ticker].score # 0
    /\ signals["main"][ticker].article_count = 2

(***************************************************************************)
(* Properties of compute_next_day_change (SpecChange).                     *)
(***************************************************************************)
\* the earliest day of a non-empty set of days
Earliest(S) == CHOOSE d \in S : \A e \in S : d <= e

\* the known dates on or after the reference, and after the effective date
KnownFrom(ref) == {d \in DOMAIN cdPrices : d >= ref}
KnownAfter(d) == {e \in DOMAIN cdPrices : e > d}

\* C12: the effective date is the reference when it is a known date, else
\* the earliest known date on or after it; the result is (price of the
\* next known date - price of the effective date) / price of the
\* effective date * 100, and None exactly when no known date is on or
\* after the reference, the effective date is the last known date, or its
\* price is 0.  {day 2: 100, day 3: 102} and reference day 2 give 2.0.
C12_NextDayChange ==
  fnPc = "done" =>
    /\ IF KnownFrom(cdRef) = {} THEN ~cdRes.resolved
       ELSE LET eff == IF cdRef \in DOMAIN cdPrices THEN cdRef
                       ELSE Earliest(KnownFrom(cdRef))
            IN  IF KnownAfter(eff) = {} \/ cdPrices[eff] = 0
                  THEN ~cdRes.resolved
                  ELSE /\ cdRes.resolved
                       /\ cdRes.num * cdPrices[eff] =
                            (cdPrices[Earliest(KnownAfter(eff))] - cdPrices[eff])
                              * 100 * cdRes.den
    /\ (DOMAIN cdPrices = {2, 3} /\ cdPrices[2] = 100 /\ cdPrices[3] = 102
          /\ cdRef = 2)
         => cdRes.resolved /\ cdRes.num = 2 * cdRes.den

\* a reference that is not a known date, resolved from the next known one
C12_Witness ==
  /\ fnPc = "done"
  /\ cdRef \notin DOMAIN cdPrices
  /\ cdRes.resolved
  /\ cdRes.num = 2 * cdRes.den

(***************************************************************************)
(* Properties of build_backtest_table (SpecTable), stated on the articles  *)
(* and price series of the call and the rows of its result.                *)
(***************************************************************************)
\* the calendar day of publication of the article at position i
DayOf(i) == btArticles[i].published \div 2

\* the (ticker, day) pairs of the articles, and the articles of a pair
Pairs == {<<btArticles[i].ticker, DayOf(i)>> : i \in 1..Len(btArticles)}
ArticlesOfPair(pr) ==
  {i \in 1..Len(btArticles) : btArticles[i].ticker = pr[1] /\ DayOf(i) = pr[2]}

\* the effective date of a reference day in a series: the earliest known
\* day on or after it (0 when there is none)
Effective(series, ref) ==
  LET from == {d \in DOMAIN series : d >= ref}
  IN  IF from = {} THEN 0 ELSE Earliest(from)

\* the forward return from a reference day is resolvable
Resolvable(series, ref) ==
  LET eff == Effective(series, ref)
  IN  /\ eff # 0
      /\ \E d \in DOMAIN series : d > eff
      /\ series[eff] # 0

\* the forward return, as numerator and denominator, when resolvable
ReturnNum(series, ref) ==
  LET eff == Effective(series, ref)
      next == Earliest({d \in DOMAIN series : d > eff})
  IN  (series[next] - series[eff]) * 100
ReturnDen(series, ref) == series[Effective(series, ref)]

\* the pairs that give a row
Surviving ==
  {pr \in Pairs : /\ pr[1] \in DOMAIN btPrices
                  /\ Resolvable(btPrices[pr[1]], pr[2])}

RowPair(i) == <<btTable[i].ticker, btTable[i].date>>

\* the order of two pairs: by ticker as strings, then by day
PairBefore(p1, p2) ==
  \/ p1[1] = "AAPL" /\ p2[1] = "GC=F"
  \/ p1[1] = p2[1] /\ p1[2] < p2[2]

\* C13: the table has exactly one row for each (ticker, day of
\* publication) group whose ticker has a price series and whose forward
\* return from the group's day is resolvable, and no other row; the row's
\* article_count is the number of articles of the group, its
\* actual_change_pct the forward return, and the rows are in ascending
\* (ticker, date) order.
C13_OneRowPerGroup ==
  fnPc = "done" =>
    /\ Len(btTable) = Cardinality(Surviving)
    /\ \A i \in 1..Len(btTable) :
         /\ RowPair(i) \in Surviving
         /\ btTable[i].article_count = Cardinality(ArticlesOfPair(RowPair(i)))
         /\ btTable[i].actual_change_pct.num
               * ReturnDen(btPrices[btTable[i].ticker], btTable[i].date)
             = ReturnNum(btPrices[btTable[i].ticker], btTable[i].date)
               * btTable[i].actual_change_pct.den
    /\ \A pr \in Surviving : \E i \in 1..Len(btTable) : RowPair(i) = pr
    /\ \A i \in 1..Len(btTable) : \A j \in 1..Len(btTable) :
         i < j => PairBefore(RowPair(i), RowPair(j))

\* two rows in the other order than their articles, and a return of 2 %
C13_Witness ==
  /\ fnPc = "done"
  /\ Len(btTable) = 2
  /\ btArticles[1].ticker = btTable[2].ticker
  /\ DayOf(1) = btTable[2].date
  /\ btTable[1].actual_change_pct.num = 2 * btTable[1].actual_change_pct.den

\* the tickers of the watchlist
Watchlist == {ALL_TICKERS[i] : i \in DOMAIN ALL_TICKERS}

\* generate_signals has returned in thread t
Generated(t) == pc[t] = "deliver"

\* C14: the result has exactly one entry for every ticker of the watchlist
\* and no other key; a watched asset without articles gets HOLD, score 0,
\* confidence 0, article_count 0 and "No recent news" under every config;
\* articles of a ticker off the watchlist change no entry.
C14_OneEntryPerTicker ==
  \A t \in Threads :
    Generated(t) =>
      /\ DOMAIN signals[t] = Watchlist
      /\ \A ticker \in Watchlist :
           LET e == signals[t][ticker]
           IN  /\ e.article_count = Cardinality(PositionsOf(t, ticker))
               /\ PositionsOf(t, ticker) = {} =>
                    /\ e.signal = "HOLD"
                    /\ e.score = 0
                    /\ e.confidence = 0
                    /\ e.top_headline = "No recent news"
               /\ \A i \in 1..Len(articles[t]) :
                    articles[t][i].ticker \notin Watchlist
                      => e.top_headline # articles[t][i].title

\* a call with an article off the watchlist and one of a watched asset
C14_Witness ==
  /\ Generated("main")
  /\ \E i \in 1..Len(articles["main"]) : articles["main"][i].ticker \notin Watchlist
  /\ \E ticker \in Watchlist :
       /\ signals["main"][ticker].article_count = 1
       /\ signals["main"][ticker].signal = "BUY"
  /\ \E ticker \in Watchlist : signals["main"][ticker].top_headline = "No recent news"

\* C15: for an asset with at least one article, top_headline is the title
\* of the article with the highest confidence among those that survive the
\* dilution filter; it is the empty string only when none survives or
\* every surviving article has confidence 0.
C15_TopHeadline ==
  \A t \in Threads :
    \A ticker \in DOMAIN signals[t] :
      LET e == signals[t][ticker]
          S == Survivors(t, ticker)
      IN  PositionsOf(t, ticker) # {} =>
            IF \A i \in S : WeightAt(t, i) = 0
              THEN e.top_headline = ""
              ELSE /\ e.top_headline # ""
                   /\ \E i \in S :
                        /\ articles[t][i].title = e.top_headline
                        /\ \A j \in S : WeightAt(t, j) <= WeightAt(t, i)

\* two surviving articles, the later one with the higher confidence
C15_Witness ==
  \E ticker \in DOMAIN signals["main"] :
    \E i \in Survivors("main", ticker) : \E j \in Survivors("main", ticker) :
      /\ i < j
      /\ 0 < WeightAt("main", i)
      /\ WeightAt("main", i) < WeightAt("main", j)
      /\ signals["main"][ticker].top_headline = articles["main"][j].title

\* the entry of an asset's articles with one more article appended
EntryWith(t, ticker, art) ==
  SignalEntry("HOLD", Aggregate(Append(ByTicker(articles[t], ticker), art)),
              Append(ByTicker(articles[t], ticker), art))

\* articles the dilution filter drops
DroppedKinds ==
  {[ticker |-> tkr, sentiment |-> s, confidence |-> c, title |-> "more"] :
     tkr \in Watchlist, s \in {"neutral", "mixed", Missing}, c \in {MissingConf, 0, 40}}

\* C16: for an asset with at least one article, the reported confidence is
\* the sum of the weights of the articles that survive the dilution
\* filter divided by the number of all the asset's articles, as a
\* percentage (to one decimal); it lies between 0 and 100, and one more
\* dropped article can only lower it.
C16_Confidence ==
  \A t \in Threads :
    \A ticker \in DOMAIN signals[t] :
      LET e == signals[t][ticker]
          wt == SumWeights(t, Survivors(t, ticker))
          n == Cardinality(PositionsOf(t, ticker))
      IN  n > 0 =>
            /\ e.conf_sum = wt
            /\ Nearest(e.confidence, 10 * wt, n)
            /\ 0 <= e.confidence /\ e.confidence <= 1000
            /\ \A art \in DroppedKinds :
                 art.ticker = ticker =>
                   LET more == EntryWith(t, ticker, art)
                   IN  /\ more.article_count = n + 1
                       /\ more.confidence <= e.confidence
                       /\ more.conf_sum * n <= e.conf_sum * (n + 1)

\* an asset with a surviving article and a dropped one: half the
\* confidence of the surviving article
C16_Witness ==
  \E ticker \in DOMAIN signals["main"] :
    /\ Cardinality(PositionsOf("main", ticker)) = 2
    /\ Cardinality(Survivors("main", ticker)) = 1
    /\ signals["main"][ticker].conf_sum = 90
    /\ signals["main"][ticker].confidence = 450

\* the grid of the sweep, in hundredths
GridTriples ==
  {<<b, sl, m>> : b \in {x \in 5..60 : x % 5 = 0},
                  sl \in {-x : x \in {y \in 5..60 : y % 5 = 0}},
                  m \in {1, 2, 3, 5}}

TripleOf(r) == <<r.buy_threshold, r.sell_threshold, r.min_articles>>

\* C17: the result list of sweep_thresholds has 576 entries, every triple
\* of the grid {0.05..0.60} x {-0.05..-0.60} x {1, 2, 3, 5} is the
\* configuration of exactly one entry, and every entry is
\* evaluate_thresholds of the table at the entry's own triple.
C17_SweepGrid ==
  fnPc = "done" =>
    /\ Len(swRes) = 576
    /\ \A k \in DOMAIN swRes : TripleOf(swRes[k]) \in GridTriples
    /\ \A g \in GridTriples :
         Cardinality({k \in DOMAIN swRes : TripleOf(swRes[k]) = g}) = 1
    /\ \A k \in DOMAIN swRes :
         swRes[k] = evaluate_thresholds(swTable, swRes[k].buy_threshold,
                                        swRes[k].sell_threshold,
                                        swRes[k].min_articles)

\* a sweep of a table on which the configurations do not all agree
C17_Witness ==
  /\ fnPc = "done"
  /\ Len(swRes) = 576
  /\ \E j \in DOMAIN swRes : \E k \in DOMAIN swRes :
       /\ swRes[j].total_signals = 3
       /\ swRes[k].total_signals = 0
       /\ swRes[k].hold_count = 3

\* the configurations of the sweep of thread t's table that are viable and
\* have the accuracy and the number of signals of the selected one
TiedWithOptimal(t) ==
  LET all_results == sweep_thresholds(table[t]) @@ << >>
      floor == IF \E k \in DOMAIN all_results : all_results[k].total_signals >= 3
                 THEN 3 ELSE 1
  IN  {all_results[k] : k \in
         {j \in DOMAIN all_results :
            /\ all_results[j].total_signals >= floor
            /\ AccEqual(all_results[j], optimal[t])
            /\ all_results[j].total_signals = optimal[t].total_signals}}

\* the place of a configuration in three orders of the grid, each with
\* min_articles ascending outermost
\*   SellInnerPlace: buy_threshold ascending, then sell_threshold -0.05 to -0.60
\*   BuyInnerPlace:  sell_threshold -0.05 to -0.60, then buy_threshold ascending
\*   BuyInnerUpPlace: sell_threshold -0.60 to -0.05, then buy_threshold ascending
SellInnerPlace(r) == r.min_articles * 10000 + r.buy_threshold * 100 - r.sell_threshold
BuyInnerPlace(r) == r.min_articles * 10000 - r.sell_threshold * 100 + r.buy_threshold
BuyInnerUpPlace(r) == r.min_articles * 10000 + (100 + r.sell_threshold) * 100 + r.buy_threshold

\* C18 as stated: among the viable configurations that tie on accuracy and
\* total_signals the selected one is the first in the order with
\* min_articles outermost, sell_threshold in the middle and buy_threshold
\* innermost (sell_threshold taken in either direction).
C18_BuyInnermost ==
  \A t \in Threads :
    (cur[t].min # 0 /\ optimal[t] # NoResult) =>
      \/ \A r \in TiedWithOptimal(t) : BuyInnerPlace(optimal[t]) <= BuyInnerPlace(r)
      \/ \A r \in TiedWithOptimal(t) : BuyInnerUpPlace(optimal[t]) <= BuyInnerUpPlace(r)

\* C18 (amended): among the viable configurations that tie on accuracy and
\* total_signals the selected one is the first in the enumeration order of
\* the sweep, and that order is: sell_threshold from -0.05 to -0.60 within
\* buy_threshold ascending within min_articles ascending (min_articles
\* outermost, buy_threshold in the middle, sell_threshold innermost).
C18_SellInnermost ==
  \A t \in Threads :
    (cur[t].min # 0 /\ optimal[t] # NoResult) =>
      /\ optimal[t] \in TiedWithOptimal(t)
      /\ \A r \in TiedWithOptimal(t) : SellInnerPlace(optimal[t]) <= SellInnerPlace(r)

\* a tie between (1, 0.05, -0.10) and (1, 0.10, -0.05): the first is selected
C18_Witness ==
  /\ cur["main"].min # 0
  /\ optimal["main"].min_articles = 1
  /\ optimal["main"].buy_threshold = 5
  /\ optimal["main"].sell_threshold = -10
  /\ \E r \in TiedWithOptimal("main") :
       r.min_articles = 1 /\ r.buy_threshold = 10 /\ r.sell_threshold = -5

\* C19 as stated: every row is for a ticker and a date on which an article
\* of the ticker was published and for which the ticker's price series
\* has an entry, and no two rows have the same (ticker, date).
C19_DateInSeries ==
  fnPc = "done" =>
    /\ \A i \in 1..Len(btTable) :
         /\ ArticlesOfPair(RowPair(i)) # {}
         /\ btTable[i].ticker \in DOMAIN btPrices
         /\ btTable[i].date \in DOMAIN btPrices[btTable[i].ticker]
    /\ \A i \in 1..Len(btTable) : \A j \in 1..Len(btTable) :
         i # j => RowPair(i) # RowPair(j)

\* C19 (amended): every row is for a ticker and a date on which an article
\* of the ticker was published and for which the ticker's price series
\* has an entry on that date or on a later one, and no two rows have the
\* same (ticker, date).
C19_DateInOrBeforeSeries ==
  fnPc = "done" =>
    /\ \A i \in 1..Len(btTable) :
         /\ ArticlesOfPair(RowPair(i)) # {}
         /\ btTable[i].ticker \in DOMAIN btPrices
         /\ \E d \in DOMAIN btPrices[btTable[i].ticker] : d >= btTable[i].date
    /\ \A i \in 1..Len(btTable) : \A j \in 1..Len(btTable) :
         i # j => RowPair(i) # RowPair(j)

\* two articles of one group whose day is before the first day of the
\* series: one row, dated by the articles
C19_Witness ==
  /\ fnPc = "done"
  /\ Len(btArticles) = 2
  /\ Len(btTable) = 1
  /\ Cardinality(ArticlesOfPair(RowPair(1))) = 2
  /\ btTable[1].date \notin DOMAIN btPrices[btTable[1].ticker]

\* polarity and weight of the article at position i of the call
BtPolarity(i) ==
  CASE btArticles[i].sentiment = "positive" -> 1
    [] btArticles[i].sentiment = "negative" -> -1
    [] OTHER -> 0

BtWeight(i) ==
  IF btArticles[i].confidence = MissingConf THEN 50 ELSE btArticles[i].confidence

\* an article the dilution filter of generate_signals drops
BtDilutable(i) == BtPolarity(i) = 0 /\ BtWeight(i) < 70

RECURSIVE BtSumWeights(_)
BtSumWeights(S) ==
  IF S = {} THEN 0
  ELSE LET i == CHOOSE x \in S : TRUE
       IN  BtWeight(i) + BtSumWeights(S \ {i})

RECURSIVE BtSumPolarities(_)
BtSumPolarities(S) ==
  IF S = {} THEN 0
  ELSE LET i == CHOOSE x \in S : TRUE
       IN  BtPolarity(i) * BtWeight(i) + BtSumPolarities(S \ {i})

\* the score generate_signals computes for the articles of row i (lines
\* 46-59 of signal_generator.py), as a quotient
LiveScore(i) ==
  LET g == Aggregate(GroupOf(btArticles, [ticker |-> btTable[i].ticker,
                                           date |-> btTable[i].date]))
  IN  IF g.weight_total > 0
        THEN [num |-> g.weighted_sum, den |-> g.weight_total]
        ELSE [num |-> 0, den |-> 1]

Abs(x) == IF x < 0 THEN -x ELSE x

\* the backtest score of row i is the sum of polarity * weight over all
\* the articles of the group divided by the sum of their weights, 0 when
\* that sum is 0, and equals the live score when no article of the group
\* is dilutable
ScoreOfAll(i) ==
  LET G == ArticlesOfPair(RowPair(i))
      ws == BtSumPolarities(G)
      wt == BtSumWeights(G)
      bt == btTable[i].sentiment_score
      live == LiveScore(i)
  IN  /\ bt.den > 0
      /\ IF wt = 0 THEN bt.num = 0 ELSE bt.num * wt = ws * bt.den
      /\ (\A k \in G : ~BtDilutable(k)) => bt.num * live.den = live.num * bt.den

GsReading(t) == pc[t] \in {"gs_read_buy", "gs_min_buy", "gs_read_sell", "gs_min_sell"}

\* thread t is inside auto_tune
InAutoTune(t) ==
  pc[t] \in {"at_collect", "at_analyze", "at_read_buy", "at_read_sell",
             "at_read_min", "at_write_buy", "at_write_sell", "at_write_min"}

\* the step is one of thread t
Stepping(t) == pc'[t] # pc[t] \/ tk'[t] # tk[t]

\* when generate_signals of a run reads the config, auto_tune of the run
\* has returned or raised
TunedBeforeSignals ==
  \A t \in Threads :
    GsReading(t) => ret[t] \in {"True", "False", "raised"} /\ ~InAutoTune(t)

\* the step in which auto_tune raises leaves the config alone and takes
\* the run to collect_all_news, and no later step of the run writes the
\* config
RaiseKeepsConfig ==
  \A t \in Threads :
    /\ (ret[t] # "raised" /\ ret'[t] = "raised")
         => pc'[t] = "collect" /\ config' = config
    /\ (ret[t] = "raised" /\ ret'[t] = "raised" /\ Stepping(t))
         => config' = config /\ pc'[t] # "at_collect"

C22_WellFormedConfig ==
  /\ config.SELL_THRESHOLD < 0
  /\ 0 < config.BUY_THRESHOLD
  /\ config.MIN_ARTICLES >= 1

\* between the assignments of two interleaved updates: a config that is
\* neither the initial one nor the triple of any run
C22_Witness ==
  /\ \E t \in Threads : pc[t] = "at_write_sell"
  /\ \E u \in Threads : pc[u] = "at_write_min"
  /\ config \notin {InitialConfig} \cup written

(***************************************************************************)
(* Properties of consecutive auto_tune calls on unchanged data             *)
(* (SpecTwice).                                                            *)
(***************************************************************************)
\* thread t is in a run after its first one
LaterRun(t) == runs[t] < MaxRuns - 1

\* C23: when auto_tune is run again in sequence, with no other writer and
\* on the same evaluation table as the run before, it returns False and
\* leaves the live config as the run before left it, whether or not that
\* run updated it.
C23_Idempotent ==
  \A t \in Threads :
    (Ended(t) /\ LaterRun(t)) =>
      /\ table[t] = sameTable
      /\ ret[t] = "False"
      /\ config = pre[t]

\* a second run that keeps the triple the first run wrote
C23_Witness ==
  /\ Ended("main")
  /\ LaterRun("main")
  /\ table["main"] # << >>
  /\ site["main"] = "kept"
  /\ ret["main"] = "False"
  /\ pre["main"] # InitialConfig
  /\ pre["main"] \in written
  /\ config = pre["main"]

(***************************************************************************)
(* Properties of concurrent auto_tune runs (SpecWeb).                      *)
(***************************************************************************)
\* C24: once every auto_tune run of the dashboard's threads has finished,
\* the live config is the initial config or the complete optimal triple
\* chosen by one single run, never a mixture of the triples of two runs.
C24_FinalTripleWhole ==
  (\A t \in Threads : ~InAutoTune(t)) => config \in {InitialConfig} \cup written

====
